---- MODULE Spec2Model ----
(***************************************************************************)
(* A model of wgo (github.com/bokwoon95/wgo): the supervisor instance      *)
(* WgoCmd.Run of wgo_cmd.go, with the helper goroutines it spawns, the     *)
(* child processes it owns, its debounce timer and its cancellation        *)
(* context.                                                                *)
(*                                                                         *)
(* One instance is modelled.  The event loop (the "selector") is the       *)
(* goroutine that executes Run; every case of its two select statements    *)
(* is an action.  Go's select picks any ready case, so the actions of one  *)
(* select are simply all enabled together.  The reaper goroutine           *)
(* (wg.Wait; cmdResult <- cmd.Wait(); close(waitDone)), the stdin pump,    *)
(* the child process, the runtime timer, the context and the file system   *)
(* are the environment actions.                                            *)
(*                                                                         *)
(* Indices are 1-based here: argv i of the model is ArgsList[i-1] of the   *)
(* code.                                                                   *)
(***************************************************************************)
EXTENDS Integers, Sequences, FiniteSets, TLC

\* ------------------------------------------------------------------ bounds

\* The longest command chain (len(wgoCmd.ArgsList)) the model draws.
MaxChain == 2

\* The number of restarts (values of restartCount above zero) that are modelled.
MaxRestarts == 2

\* wgoCmd.Debounce, in ticks of the model's clock.
Debounce == 2

\* The most arguments after the program name the model draws for the parser.
MaxArgs == 4

\* The longest pattern compileRegexp is called with, and the longest string
\* a compiled pattern is tried on.
MaxPattern == 3

\* ------------------------------------------------------------------ state

VARIABLES
    wgoCmd,         \* the WgoCmd fields Run reads; never changed by Run
    pc,             \* where the goroutine executing Run is
    restartCount,   \* the outer loop's counter
    i,              \* the index of the range loop over ArgsList (1-based)
    procs,          \* the child processes started and what became of them
    cmdResult,      \* the current command's cmdResult channel (capacity 1)
    waitDone,       \* TRUE once the current command's waitDone is closed
    pump,           \* the stdin pump goroutine of the current command
    timer,          \* the debounce timer: armed, ticks left, and timer.C
    ctxDone,        \* TRUE once wgoCmd.ctx is cancelled
    watched,        \* the directories added to the fsnotify watcher
    result,         \* what Run returned
    restartsSinceMatch, \* history: restarts since the last matching event
    armedBy,        \* history: the kind of event that last reset the timer
    osArgs,         \* os.Args of the invocation
    mainPc,         \* where the goroutine executing main is, or how it ended
    wgoCmds,        \* main's wgoCmds: what WgoCommands returned
    runs,           \* main's view of each instance: its Run and its child
    results,        \* main's results channel: its buffer and whether closed
    mainOk,         \* main's ok
    userInterrupt,  \* the number of signals in main's userInterrupt channel
    handler,        \* which receive the signal goroutine of main waits in
    exitStatus,     \* the exit status of the process, -1 while it runs
    matchPath,      \* the path WgoCmd.match is called with
    matchResult,    \* what match returned and the path it logged
    rawPattern,     \* the pattern compileRegexp is called with
    compiledRe,     \* what compileRegexp returned
    walkDir,        \* the directory addDirsRecursively is called with
    cmdArgs,        \* the args joinArgs is called with
    joined,         \* what joinArgs returned, and on which platform
    fsDirs,         \* the directories that exist
    fsFiles,        \* the regular files that exist
    pollers,        \* the pollDirectory goroutines, by directory
    watcherState,   \* what the goroutine of the fsnotify watcher does
    relayState,     \* what the goroutine that feeds events from the watcher does
    logLines        \* what was written to wgoCmd.Logger (shown when verbose)

vars == <<wgoCmd, pc, restartCount, i, procs, cmdResult, waitDone, pump, timer,
          ctxDone, watched, result, restartsSinceMatch, armedBy,
          osArgs, mainPc, wgoCmds, runs, results, mainOk, userInterrupt, handler,
          exitStatus,
          matchPath, matchResult, rawPattern, compiledRe, walkDir, cmdArgs, joined,
          fsDirs, fsFiles, pollers, watcherState, relayState, logLines>>

\* The state of main, apart from the context, which it shares with every Run.
mainVars == <<osArgs, mainPc, wgoCmds, runs, results, mainOk, userInterrupt, handler,
              exitStatus>>

\* The calls of match, compileRegexp and addDirsRecursively that are followed
\* on their own: arguments and results.
callVars == <<matchPath, matchResult, rawPattern, compiledRe, walkDir, cmdArgs, joined>>

\* The sources of file events: the file system, the pollers, the watcher and
\* the goroutine that relays its events.
watchVars == <<fsDirs, fsFiles, pollers, watcherState, relayState, logLines>>

\* The state of the Run that is modelled step by step, apart from the context.
runVars == <<wgoCmd, pc, restartCount, i, procs, cmdResult, waitDone, pump, timer,
             watched, result, restartsSinceMatch, armedBy>>

\* ------------------------------------------------------------------ strings

HasPrefix(s, prefix) ==
    Len(s) >= Len(prefix) /\ SubSeq(s, 1, Len(prefix)) = prefix

HasSuffix(s, suffix) ==
    Len(s) >= Len(suffix) /\ SubSeq(s, Len(s) - Len(suffix) + 1, Len(s)) = suffix

TrimPrefix(s, prefix) ==
    IF HasPrefix(s, prefix) THEN SubSeq(s, Len(prefix) + 1, Len(s)) ELSE s

\* The position of the last "/" of s, 0 when it has none.
LastSlash(s) ==
    LET at == {k \in 1..Len(s) : SubSeq(s, k, k) = "/"}
    IN  IF at = {} THEN 0 ELSE CHOOSE k \in at : \A m \in at : m <= k

\* filepath.Dir for the clean, slash-separated paths of the model.
Dir(s) ==
    LET k == LastSlash(s)
    IN  IF k = 0 THEN "." ELSE IF k = 1 THEN "/" ELSE SubSeq(s, 1, k - 1)

\* filepath.Base for the clean, slash-separated paths of the model.
Base(s) == SubSeq(s, LastSlash(s) + 1, Len(s))

\* (*regexp.Regexp).MatchString for a pattern without metacharacters: the
\* pattern matches when its text occurs anywhere in s.  A compiled pattern is
\* modelled by the literal text it matches (`\.go` by ".go").
MatchString(r, s) ==
    \E k \in 1..(Len(s) - Len(r) + 1) : SubSeq(s, k, k + Len(r) - 1) = r

\* ------------------------------------------------------------------ inputs

\* The paths file events are about.
Paths == {"/r/main.go", "/r/main_test.go", "/r/main.xhtml", "/r/internal", "/r/.git"}

\* fsnotify.Op values; an event's Op is a set of them.
Ops == {{"CREATE"}, {"WRITE"}, {"REMOVE"}, {"RENAME"}, {"CHMOD"},
        {"WRITE", "CHMOD"}, {"REMOVE", "RENAME"}}

\* A file event together with what os.Stat(event.Name) answers when the event
\* is handled: a regular file, a directory, or an error.
Events == [Op : Ops, Name : Paths, stat : {"file", "dir", "err"}]

\* The directories that exist by the time the registrar walks a directory a
\* create event named.  When Run starts only the roots exist.
DirTree == {"/r", "/r/internal", "/r/internal/baz", "/r/.git"}

\* The instances: every chain length, every combination of the boolean
\* flags, polling or not, and the filter settings (no filter or -file .go,
\* each as plain wgo and as wgo run).
WgoCmds ==
    [ ArgsLen : 1..MaxChain,
      Exit : BOOLEAN,
      EnableStdin : BOOLEAN,
      Postpone : BOOLEAN,
      PollDuration : {0, 1},
      Roots : {<<"/r">>},
      FileRegexps : {<<>>, <<".go">>},
      ExcludeFileRegexps : {<<>>},
      DirRegexps : {<<>>},
      ExcludeDirRegexps : {<<>>},
      isRun : BOOLEAN ]

\* The roots match is called with: one root, two roots of which one is
\* inside the other, in both orders, a root whose name is the beginning of
\* the name of a directory beside it, and the root of the file system.
MatchRoots == {<<"/r">>, <<"/r", "/r/sub">>, <<"/r/sub", "/r">>, <<"/r/s">>, <<"/">>}

\* The instances match is called on: the roots, and no pattern, one or two
\* of each kind, as plain wgo and as wgo run.
MatchCmds ==
    [ ArgsLen : {1},
      Exit : {FALSE},
      EnableStdin : {FALSE},
      Postpone : {FALSE},
      PollDuration : {0},
      Roots : MatchRoots,
      FileRegexps : {<<>>, <<".go">>, <<".css", "main">>},
      ExcludeFileRegexps : {<<>>, <<"_test">>, <<"main">>},
      DirRegexps : {<<>>, <<"sub">>},
      ExcludeDirRegexps : {<<>>, <<"args">>, <<"sub">>},
      isRun : BOOLEAN ]

\* The paths match is called with.
MatchPaths ==
    {"/r/main.go", "/r/main_test.go", "/r/foo.txt", "/r/sub/x.go",
     "/r/sub/x_test.go", "/r/sub/args/main.go", "/o/sub/x.go"}

\* The directories a walk can find: plain ones, one below another, the
\* default-skipped .git and node_modules with a directory inside, and one
\* whose name begins with a dot.
WalkDirs ==
    {"/r", "/r/a", "/r/sub", "/r/sub/args", "/r/.git", "/r/.git/hooks",
     "/r/node_modules", "/r/node_modules/sub", "/r/.config"}

\* The directory trees: the sets of WalkDirs that hold /r and the parent of
\* every other directory they hold.
WalkTrees ==
    {t \in SUBSET WalkDirs :
        "/r" \in t /\ \A d \in t : d = "/r" \/ Dir(d) \in t}

\* The instances addDirsRecursively is called on: one root or a second
\* root inside the first, and the patterns for directories.
WalkCmds ==
    [ ArgsLen : {1},
      Exit : {FALSE},
      EnableStdin : {FALSE},
      Postpone : {FALSE},
      PollDuration : {0},
      Roots : {<<"/r">>, <<"/r", "/r/sub">>, <<"/r", "/r/.git">>},
      FileRegexps : {<<>>},
      ExcludeFileRegexps : {<<>>},
      DirRegexps : {<<>>, <<"sub">>, <<".git", "args">>},
      ExcludeDirRegexps : {<<>>, <<"sub">>, <<"hooks">>},
      isRun : {FALSE} ]

\* The characters of the patterns compileRegexp is called with: the dot, a
\* letter, two characters that are not letters, and the backslash.
PatternChars == {".", "a", "/", "-", "\\"}

\* The strings of at most n characters of chars.
RECURSIVE Strings(_, _)
Strings(chars, n) ==
    IF n = 0 THEN {""}
    ELSE Strings(chars, n - 1)
             \cup {s \o c : s \in Strings(chars, n - 1), c \in chars}

\* The patterns compileRegexp is called with.
Patterns == Strings(PatternChars, MaxPattern) \ {""}

\* ------------------------------------------------------------------ matcher

\* Whether some pattern of the list rs matches s.
AnyMatch(rs, s) == \E k \in 1..Len(rs) : MatchString(rs[k], s)

\* The roots of w that are a directory prefix of path, by position.
RootsAbove(w, path) == {k \in 1..Len(w.Roots) : HasPrefix(path, w.Roots[k] \o "/")}

\* The path a pattern is matched against: the path with the first root that
\* is a directory prefix of it stripped, else the path itself.
Normalized(w, path) ==
    LET ks == RootsAbove(w, path)
    IN  IF ks = {} THEN path
        ELSE TrimPrefix(path, w.Roots[CHOOSE k \in ks : \A m \in ks : k <= m] \o "/")

\* match as a bug would have it: the include patterns for files are tried
\* before the exclusions.
matchIncludesFirst(w, path) ==
    LET normalizedFile == Normalized(w, path)
        normalizedDir == Dir(normalizedFile)
    IN  IF AnyMatch(w.FileRegexps, normalizedFile) THEN TRUE
        ELSE IF AnyMatch(w.ExcludeDirRegexps, normalizedDir) THEN FALSE
        ELSE IF Len(w.DirRegexps) > 0 /\ ~AnyMatch(w.DirRegexps, normalizedDir) THEN FALSE
        ELSE IF AnyMatch(w.ExcludeFileRegexps, normalizedFile) THEN FALSE
        ELSE IF w.isRun THEN HasSuffix(path, ".go") /\ ~HasSuffix(path, "_test.go")
        ELSE Len(w.FileRegexps) = 0

\* match as a bug would have it: in run mode the default filter is only
\* used when there is no include pattern for files.
matchRunDefaultIfEmpty(w, path) ==
    LET normalizedFile == Normalized(w, path)
        normalizedDir == Dir(normalizedFile)
    IN  IF AnyMatch(w.ExcludeDirRegexps, normalizedDir) THEN FALSE
        ELSE IF Len(w.DirRegexps) > 0 /\ ~AnyMatch(w.DirRegexps, normalizedDir) THEN FALSE
        ELSE IF AnyMatch(w.ExcludeFileRegexps, normalizedFile) THEN FALSE
        ELSE IF AnyMatch(w.FileRegexps, normalizedFile) THEN TRUE
        ELSE IF Len(w.FileRegexps) > 0 THEN FALSE
        ELSE IF w.isRun THEN HasSuffix(path, ".go") /\ ~HasSuffix(path, "_test.go")
        ELSE TRUE

\* match as a bug would have it: outside run mode a file no include pattern
\* matches is excluded, also when there is no include pattern.
matchNeedsInclude(w, path) ==
    LET normalizedFile == Normalized(w, path)
        normalizedDir == Dir(normalizedFile)
    IN  IF AnyMatch(w.ExcludeDirRegexps, normalizedDir) THEN FALSE
        ELSE IF Len(w.DirRegexps) > 0 /\ ~AnyMatch(w.DirRegexps, normalizedDir) THEN FALSE
        ELSE IF AnyMatch(w.ExcludeFileRegexps, normalizedFile) THEN FALSE
        ELSE IF AnyMatch(w.FileRegexps, normalizedFile) THEN TRUE
        ELSE IF w.isRun THEN HasSuffix(path, ".go") /\ ~HasSuffix(path, "_test.go")
        ELSE FALSE

\* WgoCmd.match: whether a change of the file at path triggers a reload.
match(w, path) ==
    LET normalizedFile == Normalized(w, path)
        normalizedDir == Dir(normalizedFile)
    IN  IF AnyMatch(w.ExcludeDirRegexps, normalizedDir) THEN FALSE
        ELSE IF Len(w.DirRegexps) > 0 /\ ~AnyMatch(w.DirRegexps, normalizedDir) THEN FALSE
        ELSE IF AnyMatch(w.ExcludeFileRegexps, normalizedFile) THEN FALSE
        ELSE IF AnyMatch(w.FileRegexps, normalizedFile) THEN TRUE
        ELSE IF w.isRun THEN HasSuffix(path, ".go") /\ ~HasSuffix(path, "_test.go")
        ELSE Len(w.FileRegexps) = 0

\* ------------------------------------------------------------------ registrar

\* The directory names addDirsRecursively and pollDirectory skip by default.
SkippedNames == {".git", ".hg", ".svn", ".idea", ".vscode", ".settings", "node_modules"}

\* Decision as a bug would have it: the default-skipped names and the names
\* that begin with a dot are skipped before the include patterns are tried.
DecisionSkipsFirst(w, path) ==
    LET normalizedDir == Normalized(w, path)
        name == Base(path)
    IN  IF \E k \in 1..Len(w.Roots) : w.Roots[k] = path THEN "root"
        ELSE IF AnyMatch(w.ExcludeDirRegexps, normalizedDir) THEN "skip"
        ELSE IF name \in SkippedNames THEN "skip"
        ELSE IF HasPrefix(name, ".") THEN "skip"
        ELSE "watch"

\* What the WalkDir callback of addDirsRecursively decides for the directory
\* path: "root" and "watch" add it to the watcher and walk on, "skip" is
\* filepath.SkipDir.
Decision(w, path) ==
    LET normalizedDir == Normalized(w, path)
        name == Base(path)
    IN  IF \E k \in 1..Len(w.Roots) : w.Roots[k] = path THEN "root"
        ELSE IF AnyMatch(w.ExcludeDirRegexps, normalizedDir) THEN "skip"
        ELSE IF AnyMatch(w.DirRegexps, normalizedDir) THEN "watch"
        ELSE IF name \in SkippedNames THEN "skip"
        ELSE IF HasPrefix(name, ".") THEN "skip"
        ELSE "watch"

\* Whether filepath.WalkDir(dir) reaches path: every directory from dir down
\* to the parent of path was walked into, none answered SkipDir.
RECURSIVE Reached(_, _, _)
Reached(w, dir, path) ==
    IF path = dir THEN TRUE
    ELSE IF ~HasPrefix(path, dir \o "/") THEN FALSE
    ELSE Reached(w, dir, Dir(path)) /\ Decision(w, Dir(path)) # "skip"

\* WgoCmd.addDirsRecursively: the directories the watcher holds after the
\* walk of dir, tree being the directories that exist.
addDirsRecursively(w, watcher, dir, tree) ==
    watcher \cup {d \in tree : Reached(w, dir, d) /\ Decision(w, d) # "skip"}

\* ------------------------------------------------------------------ parser

\* The working directory of the invocation (os.Getwd).
cwd == "/r"

\* filepath.Abs for the clean, slash-separated paths of the model.
Abs(path) == IF HasPrefix(path, "/") THEN path ELSE cwd \o "/" \o path

\* The number of times the one-character string c occurs in s.
Count(s, c) == Cardinality({k \in 1..Len(s) : SubSeq(s, k, k) = c})

\* The one-character strings that are ASCII letters.
Letters ==
    {"a", "b", "c", "d", "e", "f", "g", "h", "i", "j", "k", "l", "m", "n", "o",
     "p", "q", "r", "s", "t", "u", "v", "w", "x", "y", "z",
     "A", "B", "C", "D", "E", "F", "G", "H", "I", "J", "K", "L", "M", "N", "O",
     "P", "Q", "R", "S", "T", "U", "V", "W", "X", "Y", "Z"}

\* regexp.Compile, as far as the patterns of the model go: a pattern whose
\* parentheses do not balance is a syntax error.
RECURSIVE Depth(_, _, _)
Depth(pattern, k, open) ==
    IF k > Len(pattern) THEN open
    ELSE IF open < 0 THEN open
    ELSE IF SubSeq(pattern, k, k) = "(" THEN Depth(pattern, k + 1, open + 1)
    ELSE IF SubSeq(pattern, k, k) = ")" THEN Depth(pattern, k + 1, open - 1)
    ELSE Depth(pattern, k + 1, open)

\* Whether the pattern ends in a backslash that escapes nothing, from
\* position k on, k not being escaped.
RECURSIVE TrailingBackslash(_, _)
TrailingBackslash(pattern, k) ==
    IF k > Len(pattern) THEN FALSE
    ELSE IF SubSeq(pattern, k, k) = "\\"
         THEN k = Len(pattern) \/ TrailingBackslash(pattern, k + 2)
         ELSE TrailingBackslash(pattern, k + 1)

SyntaxError(pattern) == Depth(pattern, 1, 0) # 0 \/ TrailingBackslash(pattern, 1)

\* The loop of compileRegexp as a bug would have it: every dot that is not
\* preceded by a backslash becomes `\.`, whatever follows it.
RECURSIVE RewrittenEveryDot(_, _, _)
RewrittenEveryDot(pattern, j, b) ==
    IF j > Len(pattern) THEN b
    ELSE LET prev == IF Len(b) = 0 THEN "" ELSE SubSeq(b, Len(b), Len(b))
             curr == SubSeq(pattern, j, j)
         IN  IF prev # "\\" /\ curr = "."
             THEN RewrittenEveryDot(pattern, j + 1, b \o "\\.")
             ELSE RewrittenEveryDot(pattern, j + 1, b \o curr)

\* The loop of compileRegexp: b after the characters of pattern from j on are
\* written, a dot that is followed by a letter and not preceded by a
\* backslash becoming `\.`.
RECURSIVE Rewritten(_, _, _)
Rewritten(pattern, j, b) ==
    IF j > Len(pattern) THEN b
    ELSE LET prev == IF Len(b) = 0 THEN "" ELSE SubSeq(b, Len(b), Len(b))
             curr == SubSeq(pattern, j, j)
             next == IF j < Len(pattern) THEN SubSeq(pattern, j + 1, j + 1) ELSE ""
         IN  IF prev # "\\" /\ curr = "." /\ next \in Letters
             THEN Rewritten(pattern, j + 1, b \o "\\.")
             ELSE Rewritten(pattern, j + 1, b \o curr)

\* compileRegexp: the source of the regexp that is compiled, and whether
\* compiling it fails.
compileRegexp(pattern) ==
    LET src == IF Count(pattern, ".") = 0 THEN pattern
               ELSE IF HasPrefix(pattern, "./") /\ Len(pattern) > 2
                    THEN Rewritten(SubSeq(pattern, 3, Len(pattern)), 1, "")
                    ELSE Rewritten(pattern, 1, "")
    IN  [err |-> SyntaxError(src), re |-> src]

\* The one-character strings that are decimal digits, with their values.
DigitValue ==
    [c \in {"0", "1", "2", "3", "4", "5", "6", "7", "8", "9"} |->
        CASE c = "0" -> 0 [] c = "1" -> 1 [] c = "2" -> 2 [] c = "3" -> 3
          [] c = "4" -> 4 [] c = "5" -> 5 [] c = "6" -> 6 [] c = "7" -> 7
          [] c = "8" -> 8 [] c = "9" -> 9]

RECURSIVE Decimal(_, _)
Decimal(s, acc) ==
    IF Len(s) = 0 THEN acc
    ELSE Decimal(SubSeq(s, 2, Len(s)), 10 * acc + DigitValue[SubSeq(s, 1, 1)])

\* time.ParseDuration for durations written as an optional sign, decimal
\* digits and the unit ms or s; the value is in milliseconds.  Anything else
\* the model draws ("", a word, a number without unit) is an error in Go too.
ParseDuration(s) ==
    LET signed == Len(s) > 0 /\ SubSeq(s, 1, 1) \in {"-", "+"}
        neg == Len(s) > 0 /\ SubSeq(s, 1, 1) = "-"
        body == IF signed THEN SubSeq(s, 2, Len(s)) ELSE s
        digits == {k \in 1..Len(body) : SubSeq(body, k, k) \in DOMAIN DigitValue}
        n == Cardinality(digits)
        unit == SubSeq(body, n + 1, Len(body))
        wellFormed == n > 0 /\ digits = 1..n /\ unit \in {"ms", "s"}
        value == Decimal(SubSeq(body, 1, n), 0) * (IF unit = "s" THEN 1000 ELSE 1)
    IN  IF body = "0" THEN [err |-> FALSE, d |-> 0]
        ELSE IF ~wellFormed THEN [err |-> TRUE, d |-> 0]
        ELSE [err |-> FALSE, d |-> IF neg THEN 0 - value ELSE value]

\* strconv.ParseBool.
ParseBool(s) ==
    IF s \in {"1", "t", "T", "TRUE", "true", "True"} THEN [err |-> FALSE, b |-> TRUE]
    ELSE IF s \in {"0", "f", "F", "FALSE", "false", "False"} THEN [err |-> FALSE, b |-> FALSE]
    ELSE [err |-> TRUE, b |-> FALSE]

\* String flag names copied from `go help build`.
strFlagNames ==
    <<"p", "asmflags", "buildmode", "compiler", "gccgoflags", "gcflags",
      "installsuffix", "ldflags", "mod", "modfile", "overlay", "pkgdir",
      "tags", "toolexec", "exec">>

\* Bool flag names copied from `go help build`.
boolFlagNames ==
    <<"a", "n", "race", "msan", "asan", "v", "work", "x", "buildvcs",
      "linkshared", "modcacherw", "trimpath">>

\* The elements of a sequence.
Range(seq) == {seq[k] : k \in 1..Len(seq)}

\* The flags WgoCommand defines on its flagset: the boolean ones and the
\* ones that take a value.  In run mode the go build flags are added.
BoolFlags(isRun) ==
    {"verbose", "exit", "stdin", "postpone"}
        \cup (IF isRun THEN Range(boolFlagNames) ELSE {})

ValueFlags(isRun) ==
    {"cd", "debounce", "poll", "root", "file", "xfile", "dir", "xdir"}
        \cup (IF isRun THEN Range(strFlagNames) ELSE {})

\* flag.Value.Set for the flag name: what setting it to value does to the
\* state fs of the parse (the WgoCmd under construction and the locals
\* debounce, poll, verbose, strFlagValues and boolFlagValues).
Set(fs, name, value) ==
    IF name \in BoolFlags(TRUE)
    THEN LET r == ParseBool(value)
         IN  IF r.err THEN [fs EXCEPT !.err = "error"]
             ELSE CASE name = "verbose" -> [fs EXCEPT !.verbose = r.b]
                    [] name = "exit" -> [fs EXCEPT !.w.Exit = r.b]
                    [] name = "stdin" -> [fs EXCEPT !.w.EnableStdin = r.b]
                    [] name = "postpone" -> [fs EXCEPT !.w.Postpone = r.b]
                    [] OTHER -> [fs EXCEPT !.boolFlagValues[name] = r.b]
    ELSE IF name \in {"file", "xfile", "dir", "xdir"}
    THEN LET r == compileRegexp(value)
         IN  IF r.err THEN [fs EXCEPT !.err = "error"]
             ELSE CASE name = "file" -> [fs EXCEPT !.w.FileRegexps = Append(@, r.re)]
                    [] name = "xfile" -> [fs EXCEPT !.w.ExcludeFileRegexps = Append(@, r.re)]
                    [] name = "dir" -> [fs EXCEPT !.w.DirRegexps = Append(@, r.re)]
                    [] name = "xdir" -> [fs EXCEPT !.w.ExcludeDirRegexps = Append(@, r.re)]
    ELSE CASE name = "cd" -> [fs EXCEPT !.w.Dir = value]
           [] name = "debounce" -> [fs EXCEPT !.debounce = value]
           [] name = "poll" -> [fs EXCEPT !.poll = value]
           [] name = "root" -> [fs EXCEPT !.w.Roots = Append(@, Abs(value))]
           [] OTHER -> [fs EXCEPT !.strFlagValues = @ \o <<"-" \o name, value>>]

\* The position of the first "=" of name after its first character, 0 when
\* there is none.
IndexEquals(name) ==
    LET at == {k \in 2..Len(name) : SubSeq(name, k, k) = "="}
    IN  IF at = {} THEN 0 ELSE CHOOSE k \in at : \A m \in at : k <= m

\* (*flag.FlagSet).Parse: parseOne applied until the first argument that is
\* not a flag, the terminator "--", or an error.  fs.args is what is left of
\* the arguments, fs.err is "nil", "help" (flag.ErrHelp) or "error".
RECURSIVE Parse(_)
Parse(fs) ==
    IF fs.err # "nil" \/ Len(fs.args) = 0 THEN fs
    ELSE
    LET s == fs.args[1]
        rest == Tail(fs.args)
    IN  IF Len(s) < 2 \/ SubSeq(s, 1, 1) # "-" THEN fs
        ELSE IF s = "--" THEN [fs EXCEPT !.args = rest]
        ELSE
        LET numMinuses == IF SubSeq(s, 2, 2) = "-" THEN 2 ELSE 1
            full == SubSeq(s, numMinuses + 1, Len(s))
            eq == IndexEquals(full)
            name == IF eq = 0 THEN full ELSE SubSeq(full, 1, eq - 1)
            hasValue == eq # 0
            value == IF eq = 0 THEN "" ELSE SubSeq(full, eq + 1, Len(full))
        IN  IF Len(full) = 0 \/ SubSeq(full, 1, 1) \in {"-", "="}
            THEN [fs EXCEPT !.err = "error"]
            ELSE IF name \notin BoolFlags(fs.w.isRun) \cup ValueFlags(fs.w.isRun)
            THEN [fs EXCEPT !.err = IF name \in {"help", "h"} THEN "help" ELSE "error"]
            ELSE IF name \in BoolFlags(fs.w.isRun)
            THEN Parse(Set([fs EXCEPT !.args = rest], name,
                           IF hasValue THEN value ELSE "true"))
            ELSE IF hasValue
            THEN Parse(Set([fs EXCEPT !.args = rest], name, value))
            ELSE IF Len(rest) > 0
            THEN Parse(Set([fs EXCEPT !.args = Tail(rest)], name, rest[1]))
            ELSE [fs EXCEPT !.err = "error"]

\* AllColons as a bug would have it: the escape starts at four colons.
AllColonsOverThree(arg) ==
    Len(arg) > 3 /\ \A k \in 1..Len(arg) : SubSeq(arg, k, k) = ":"

\* Whether arg is the escape of a separator: three or more colons only.
AllColons(arg) == Len(arg) > 2 /\ \A k \in 1..Len(arg) : SubSeq(arg, k, k) = ":"

RECURSIVE SplitChain(_, _)
\* SplitChain as a bug would have it: in a chain that begins with the two
\* commands of run mode "::" starts no new command, it is an argument of the
\* program.
SplitChainRunOnly(ArgsList, flagArgs) ==
    IF Len(flagArgs) = 0 THEN ArgsList
    ELSE LET arg == Head(flagArgs)
             n == Len(ArgsList)
         IN  IF arg = "::" /\ Len(ArgsList[1]) = 0
             THEN SplitChain(Append(ArgsList, <<>>), Tail(flagArgs))
             ELSE SplitChain([ArgsList EXCEPT ![n] =
                                 Append(@, IF AllColons(arg) THEN SubSeq(arg, 2, Len(arg))
                                           ELSE arg)],
                             Tail(flagArgs))

\* The loop over flagArgs at the end of WgoCommand: "::" starts a new
\* command, an escape loses one colon, and every argument but "::" is
\* appended to the last command of the chain.
SplitChain(ArgsList, flagArgs) ==
    IF Len(flagArgs) = 0 THEN ArgsList
    ELSE LET arg == Head(flagArgs)
             n == Len(ArgsList)
         IN  IF arg = "::"
             THEN SplitChain(Append(ArgsList, <<>>), Tail(flagArgs))
             ELSE SplitChain([ArgsList EXCEPT ![n] =
                                 Append(@, IF AllColons(arg) THEN SubSeq(arg, 2, Len(arg))
                                           ELSE arg)],
                             Tail(flagArgs))

\* The output path of the `go build` executable.  The code draws it from the
\* clock and a random number; it is the same path in both commands.
executablePath == "/tmp/wgo_out"

\* The build flags of run mode that are set, in the order of boolFlagNames.
SetBoolFlags(boolFlagValues) ==
    LET F[k \in 0..Len(boolFlagNames)] ==
            IF k = 0 THEN <<>>
            ELSE IF boolFlagValues[boolFlagNames[k]]
                 THEN Append(F[k - 1], "-" \o boolFlagNames[k])
                 ELSE F[k - 1]
    IN  F[Len(boolFlagNames)]

\* The WgoCmd and the locals of WgoCommand before flagset.Parse, args being
\* the arguments of one instance.  The field args of the WgoCmd is history:
\* the arguments it was made from.
NewFlagSet(args, isRun) ==
    [w |-> [Roots |-> <<cwd>>, FileRegexps |-> <<>>, ExcludeFileRegexps |-> <<>>,
            DirRegexps |-> <<>>, ExcludeDirRegexps |-> <<>>, ArgsList |-> <<>>,
            Dir |-> "", Exit |-> FALSE, EnableStdin |-> FALSE, Postpone |-> FALSE,
            Debounce |-> 0, PollDuration |-> 0, isRun |-> isRun,
            executablePath |-> "", args |-> args],
     debounce |-> "300ms", poll |-> "", verbose |-> FALSE,
     strFlagValues |-> <<>>,
     boolFlagValues |-> [name \in Range(boolFlagNames) |-> FALSE],
     args |-> IF isRun THEN Tail(args) ELSE args,
     err |-> "nil"]

\* The build command of run mode for the package pkg.
BuildArgs(fs, pkg) ==
    <<"go", "build", "-o", executablePath>> \o fs.strFlagValues
        \o SetBoolFlags(fs.boolFlagValues) \o <<pkg>>

\* WgoCommand after flagset.Parse, debounce and poll being what
\* time.ParseDuration made of the two flags and flagArgs being flagset.Args().
WgoCommandParsed(fs, debounce, poll, flagArgs) ==
    IF fs.err # "nil" THEN [err |-> fs.err, cmd |-> fs.w]
    ELSE IF debounce.err \/ poll.err THEN [err |-> "error", cmd |-> fs.w]
    ELSE IF fs.w.isRun /\ Len(flagArgs) = 0 THEN [err |-> "error", cmd |-> fs.w]
    ELSE [err |-> "nil",
          cmd |-> [fs.w EXCEPT
                     !.Debounce = debounce.d,
                     !.PollDuration = poll.d,
                     !.executablePath = IF fs.w.isRun THEN executablePath ELSE "",
                     !.ArgsList =
                         IF fs.w.isRun
                         THEN SplitChain(<<BuildArgs(fs, flagArgs[1]), <<executablePath>>>>,
                                         Tail(flagArgs))
                         ELSE SplitChain(<<<<>>>>, flagArgs)]]

\* The duration of a flag, fallback milliseconds when the flag is empty.
FlagDuration(value, fallback) ==
    IF value = "" THEN [err |-> FALSE, d |-> fallback] ELSE ParseDuration(value)

\* WgoCommand from flagset.Parse on.
WgoCommandFlags(fs) ==
    WgoCommandParsed(fs, FlagDuration(fs.debounce, 300), FlagDuration(fs.poll, 0), fs.args)

\* WgoCommand: the WgoCmd for the arguments of one instance, or the error.
WgoCommand(args) ==
    WgoCommandFlags(Parse(NewFlagSet(args, Len(args) > 0 /\ args[1] = "run")))

RECURSIVE WgoCommandsFrom(_, _, _, _)
\* WgoCommandsNext as a bug would have it: an instance whose arguments are
\* refused is left out and the others are returned.
WgoCommandsNextSkip(args, next, cmds, r) ==
    IF r.err = "help" THEN [err |-> r.err, wgoCmds |-> <<>>]
    ELSE WgoCommandsFrom(args, next, next,
                         IF r.err = "nil" THEN Append(cmds, r.cmd) ELSE cmds)

\* WgoCommands after a call of WgoCommand returned r: its error ends
\* WgoCommands, its WgoCmd is appended and the scan goes on at next.
WgoCommandsNext(args, next, cmds, r) ==
    IF r.err # "nil" THEN [err |-> r.err, wgoCmds |-> <<>>]
    ELSE WgoCommandsFrom(args, next, next, Append(cmds, r.cmd))

\* WgoCommandsFrom as a bug would have it: after a separator the scan goes
\* on at the "wgo" of the pair, which becomes an argument of the next instance.
WgoCommandsFromKeepName(args, first, j, cmds) ==
    IF j < Len(args)
    THEN IF args[j + 1] # "::" \/ j + 1 >= Len(args) \/ args[j + 2] # "wgo"
         THEN WgoCommandsFrom(args, first, j + 1, cmds)
         ELSE WgoCommandsNext(args, j + 1, cmds, WgoCommand(SubSeq(args, first + 1, j)))
    ELSE IF j > first
    THEN WgoCommandsNext(args, j, cmds, WgoCommand(SubSeq(args, first + 1, j)))
    ELSE [err |-> "nil", wgoCmds |-> cmds]

\* The loop of WgoCommands with its indices i (here first) and j, counted from 0
\* as in the code, and the part after the loop, where the arguments after the
\* last separator, if any, make the last WgoCmd.
WgoCommandsFrom(args, first, j, cmds) ==
    IF j < Len(args)
    THEN IF args[j + 1] # "::" \/ j + 1 >= Len(args) \/ args[j + 2] # "wgo"
         THEN WgoCommandsFrom(args, first, j + 1, cmds)
         ELSE WgoCommandsNext(args, j + 2, cmds, WgoCommand(SubSeq(args, first + 1, j)))
    ELSE IF j > first
    THEN WgoCommandsNext(args, j, cmds, WgoCommand(SubSeq(args, first + 1, j)))
    ELSE [err |-> "nil", wgoCmds |-> cmds]

\* WgoCommands: the WgoCmds of an invocation, or the first error.
WgoCommands(args) == WgoCommandsFrom(args, 1, 1, <<>>)

\* ------------------------------------------------------------------ processes

\* A child process is named by the pass and the argv it was started for.
\* procs maps the children started to their state: "running", "zombie"
\* (exited, cmd.Wait has not returned yet) or "reaped", with the exit status
\* and whether stop(cmd) signalled it while it ran.
ProcIds == (0..MaxRestarts) \X (1..MaxChain)

\* The child the range loop's current iteration is about.
Cur == <<restartCount, i>>

\* The children that are started and not yet reaped.
Live == {c \in DOMAIN procs : procs[c].st # "reaped"}

\* cmd.Start: the processes after a child is started for id.
Spawn(ps, id) ==
    [c \in DOMAIN ps \cup {id} |->
        IF c = id THEN [st |-> "running", status |-> 0, killed |-> FALSE] ELSE ps[c]]

\* stop(cmd) as a bug would have it: no signal is sent.
stopNoSignal(ps, id) == ps

\* stop(cmd): SIGTERM to the process group of the child.  A child that has
\* exited already is not affected.
stop(ps, id) ==
    [c \in DOMAIN ps |->
        IF c = id /\ ps[c].st = "running" THEN [ps[c] EXCEPT !.killed = TRUE] ELSE ps[c]]

\* What cmd.Wait returns for an exit status.
WaitError(status) == IF status = 0 THEN "nil" ELSE "exiterr"

\* The records of an abandoned pass are dropped once its children are reaped.
Forget(ps) == [c \in {d \in DOMAIN ps : ps[d].st # "reaped"} |-> ps[c]]

\* ------------------------------------------------------------------ timer

\* timer.Reset(d).  The timer is armed for d ticks.  A value the timer has
\* already sent on timer.C stays there: Reset does not drain the channel
\* (Run itself drains it by hand after timer.Stop, where it creates the timer).
Reset(t, d) == [t EXCEPT !.armed = TRUE, !.left = d]

\* One tick of the clock.
Tick ==
    /\ timer.armed /\ timer.left > 0
    /\ timer' = [timer EXCEPT !.left = @ - 1]
    /\ UNCHANGED <<mainVars, callVars, watchVars, wgoCmd, pc, restartCount, i, procs, cmdResult, waitDone,
                   pump,
                   ctxDone, watched, result, restartsSinceMatch, armedBy>>

\* The runtime fires the timer: it sends on timer.C (capacity 1, the send
\* never blocks) and the timer is no longer armed.
TimerFire ==
    /\ timer.armed /\ timer.left = 0
    /\ timer' = [timer EXCEPT !.armed = FALSE, !.C = TRUE]
    /\ UNCHANGED <<mainVars, callVars, watchVars, wgoCmd, pc, restartCount, i, procs, cmdResult, waitDone,
                   pump,
                   ctxDone, watched, result, restartsSinceMatch, armedBy>>

\* ------------------------------------------------------------------ events

Has(event, op) == op \in event.Op

\* The kind of an event, for the history of what reset the timer.
OpKind(event) ==
    IF Has(event, "CREATE") \/ Has(event, "WRITE") THEN "modify" ELSE "other"

\* HandleEvent as a bug would have it: remove events pass the first test, so
\* that a remove event for a path that is a matching file again by the time
\* of os.Stat resets the timer.
HandleEventWithRemove(event) ==
    IF ~Has(event, "CREATE") /\ ~Has(event, "WRITE") /\ ~Has(event, "REMOVE")
    THEN UNCHANGED <<timer, watched, restartsSinceMatch, armedBy>>
    ELSE IF event.stat = "err"
    THEN UNCHANGED <<timer, watched, restartsSinceMatch, armedBy>>
    ELSE IF event.stat = "dir"
    THEN /\ watched' = IF Has(event, "CREATE") /\ wgoCmd.PollDuration = 0
                       THEN addDirsRecursively(wgoCmd, watched, event.Name, DirTree)
                       ELSE watched
         /\ UNCHANGED <<timer, restartsSinceMatch, armedBy>>
    ELSE IF match(wgoCmd, event.Name)
    THEN /\ timer' = Reset(timer, Debounce)
         /\ restartsSinceMatch' = 0
         /\ armedBy' = OpKind(event)
         /\ UNCHANGED watched
    ELSE UNCHANGED <<timer, watched, restartsSinceMatch, armedBy>>

\* HandleEvent as a bug would have it: the event of a directory goes on to
\* the matcher like that of a file, and the walk does not ask whether the
\* instance polls.
HandleEventDirAsFile(event) ==
    IF ~Has(event, "CREATE") /\ ~Has(event, "WRITE")
    THEN UNCHANGED <<timer, watched, restartsSinceMatch, armedBy>>
    ELSE IF event.stat = "err"
    THEN UNCHANGED <<timer, watched, restartsSinceMatch, armedBy>>
    ELSE /\ watched' = IF event.stat = "dir" /\ Has(event, "CREATE")
                       THEN addDirsRecursively(wgoCmd, watched, event.Name, DirTree)
                       ELSE watched
         /\ IF match(wgoCmd, event.Name)
            THEN /\ timer' = Reset(timer, Debounce)
                 /\ restartsSinceMatch' = 0
                 /\ armedBy' = OpKind(event)
            ELSE UNCHANGED <<timer, restartsSinceMatch, armedBy>>

\* HandleEvent as a bug would have it: the timer is reset for every create
\* or write event of a regular file, whatever match answers.
HandleEventNoMatch(event) ==
    IF ~Has(event, "CREATE") /\ ~Has(event, "WRITE")
    THEN UNCHANGED <<timer, watched, restartsSinceMatch, armedBy>>
    ELSE IF event.stat = "err"
    THEN UNCHANGED <<timer, watched, restartsSinceMatch, armedBy>>
    ELSE IF event.stat = "dir"
    THEN /\ watched' = IF Has(event, "CREATE") /\ wgoCmd.PollDuration = 0
                       THEN addDirsRecursively(wgoCmd, watched, event.Name, DirTree)
                       ELSE watched
         /\ UNCHANGED <<timer, restartsSinceMatch, armedBy>>
    ELSE /\ timer' = Reset(timer, Debounce)
         /\ restartsSinceMatch' = 0
         /\ armedBy' = OpKind(event)
         /\ UNCHANGED watched

\* The body of `case event := <-events` (the same in both selects): what it
\* does to the timer, the watcher and the history of matches.
HandleEvent(event) ==
    IF ~Has(event, "CREATE") /\ ~Has(event, "WRITE")
    THEN UNCHANGED <<timer, watched, restartsSinceMatch, armedBy>>
    ELSE IF event.stat = "err"
    THEN UNCHANGED <<timer, watched, restartsSinceMatch, armedBy>>
    ELSE IF event.stat = "dir"
    THEN /\ watched' = IF Has(event, "CREATE") /\ wgoCmd.PollDuration = 0
                       THEN addDirsRecursively(wgoCmd, watched, event.Name, DirTree)
                       ELSE watched
         /\ UNCHANGED <<timer, restartsSinceMatch, armedBy>>
    ELSE IF match(wgoCmd, event.Name)
    THEN /\ timer' = Reset(timer, Debounce)
         /\ restartsSinceMatch' = 0
         /\ armedBy' = OpKind(event)
         /\ UNCHANGED watched
    ELSE UNCHANGED <<timer, watched, restartsSinceMatch, armedBy>>

\* restartCount++ of the outer loop, entered by `break CMD_CHAIN`.
NextPass ==
    /\ restartCount' = restartCount + 1
    /\ i' = 1
    /\ pc' = "chain"

\* ------------------------------------------------------------------ Run

ArgsLen == wgoCmd.ArgsLen

\* `if restartCount == 0 && wgoCmd.Postpone`: the first pass waits for a file
\* change instead of starting a command.
EnterPostpone ==
    /\ pc = "chain"
    /\ restartCount = 0 /\ wgoCmd.Postpone
    /\ pc' = "postpone"
    /\ UNCHANGED <<mainVars, callVars, watchVars, wgoCmd, restartCount, i, procs, cmdResult, waitDone,
                   pump, timer,
                   ctxDone, watched, result, restartsSinceMatch, armedBy>>

\* The postponed select, `case <-wgoCmd.ctx.Done(): return nil`.
PostponeCtxDone ==
    /\ pc = "postpone"
    /\ ctxDone
    /\ pc' = "done"
    /\ result' = "nil"
    /\ UNCHANGED <<mainVars, callVars, watchVars, wgoCmd, restartCount, i, procs, cmdResult, waitDone,
                   pump, timer,
                   ctxDone, watched, restartsSinceMatch, armedBy>>

\* The postponed select, `case event := <-events`.
PostponeEvent(event) ==
    /\ pc = "postpone"
    /\ HandleEvent(event)
    /\ UNCHANGED <<mainVars, callVars, watchVars, wgoCmd, pc, restartCount, i, procs, cmdResult, waitDone,
                   pump,
                   ctxDone, result>>

\* The postponed select, `case <-timer.C: break CMD_CHAIN`.
PostponeTimer ==
    /\ pc = "postpone"
    /\ timer.C
    /\ restartCount < MaxRestarts
    /\ timer' = [timer EXCEPT !.C = FALSE]
    /\ NextPass
    /\ restartsSinceMatch' = IF restartsSinceMatch < 2 THEN restartsSinceMatch + 1 ELSE 2
    /\ UNCHANGED <<mainVars, callVars, watchVars, wgoCmd, procs, cmdResult, waitDone, pump, ctxDone,
                   watched, result,
                   armedBy>>

\* Start as a bug would have it: the first pass starts the command although
\* the instance is to wait for a file change first.
StartNotPostponed(ok) ==
    /\ pc = "chain"
    /\ IF ok
       THEN /\ procs' = Spawn(procs, Cur)
            /\ pump' = IF wgoCmd.EnableStdin /\ i = ArgsLen THEN "copying" ELSE "none"
            /\ cmdResult' = "empty"
            /\ waitDone' = FALSE
            /\ pc' = "select"
            /\ UNCHANGED result
       ELSE /\ pc' = "done"
            /\ result' = "starterr"
            /\ UNCHANGED <<procs, pump, cmdResult, waitDone>>
    /\ UNCHANGED <<mainVars, callVars, watchVars, wgoCmd, restartCount, i, timer, ctxDone, watched,
                   restartsSinceMatch, armedBy>>

\* Start as a bug would have it: with stdin enabled every command of the
\* chain gets a stdin pump, not only the last.
StartStdinForAll(ok) ==
    /\ pc = "chain"
    /\ ~(restartCount = 0 /\ wgoCmd.Postpone)
    /\ IF ok
       THEN /\ procs' = Spawn(procs, Cur)
            /\ pump' = IF wgoCmd.EnableStdin THEN "copying" ELSE "none"
            /\ cmdResult' = "empty"
            /\ waitDone' = FALSE
            /\ pc' = "select"
            /\ UNCHANGED result
       ELSE /\ pc' = "done"
            /\ result' = "starterr"
            /\ UNCHANGED <<procs, pump, cmdResult, waitDone>>
    /\ UNCHANGED <<mainVars, callVars, watchVars, wgoCmd, restartCount, i, timer, ctxDone, watched,
                   restartsSinceMatch, armedBy>>

\* Steps 1 and 2 of the loop body: prepare the command, start the stdin pump
\* for the last command when stdin is enabled, start the child and its
\* reaper goroutine.  ok is FALSE when exec.LookPath, cmd.StdinPipe or
\* cmd.Start fails, and Run returns that error.
Start(ok) ==
    /\ pc = "chain"
    /\ ~(restartCount = 0 /\ wgoCmd.Postpone)
    /\ IF ok
       THEN /\ procs' = Spawn(procs, Cur)
            /\ pump' = IF wgoCmd.EnableStdin /\ i = ArgsLen THEN "copying" ELSE "none"
            /\ cmdResult' = "empty"
            /\ waitDone' = FALSE
            /\ pc' = "select"
            /\ UNCHANGED result
       ELSE /\ pc' = "done"
            /\ result' = "starterr"
            /\ UNCHANGED <<procs, pump, cmdResult, waitDone>>
    /\ UNCHANGED <<mainVars, callVars, watchVars, wgoCmd, restartCount, i, timer, ctxDone, watched,
                   restartsSinceMatch, armedBy>>

\* `case <-wgoCmd.ctx.Done(): stop(cmd)`, up to the wait for waitDone.
SelectCtxDone ==
    /\ pc = "select"
    /\ ctxDone
    /\ procs' = stop(procs, Cur)
    /\ pc' = "cancelling"
    /\ UNCHANGED <<mainVars, callVars, watchVars, wgoCmd, restartCount, i, cmdResult, waitDone, pump, timer,
                   ctxDone, watched, result, restartsSinceMatch, armedBy>>

\* ReturnCancelled as a bug would have it: Run returns without the wait for
\* waitDone.
ReturnCancelledNoWait ==
    /\ pc = "cancelling"
    /\ pc' = "done"
    /\ result' = "nil"
    /\ UNCHANGED <<mainVars, callVars, watchVars, wgoCmd, restartCount, i, procs, cmdResult, waitDone,
                   pump, timer,
                   ctxDone, watched, restartsSinceMatch, armedBy>>

\* `<-waitDone; return nil` of the cancellation case.
ReturnCancelled ==
    /\ pc = "cancelling"
    /\ waitDone
    /\ pc' = "done"
    /\ result' = "nil"
    /\ UNCHANGED <<mainVars, callVars, watchVars, wgoCmd, restartCount, i, procs, cmdResult, waitDone,
                   pump, timer,
                   ctxDone, watched, restartsSinceMatch, armedBy>>

\* SelectCmdResult as a bug would have it: the chain goes on to the next
\* command whatever the exit status of the previous one (no `if err != nil`).
SelectCmdResultIgnoreErr ==
    /\ pc = "select"
    /\ cmdResult # "empty"
    /\ cmdResult' = "empty"
    /\ IF i = ArgsLen
       THEN IF wgoCmd.Exit
            THEN pc' = "done" /\ result' = cmdResult /\ UNCHANGED i
            ELSE UNCHANGED <<pc, result, i>>
       ELSE pc' = "chain" /\ i' = i + 1 /\ UNCHANGED result
    /\ UNCHANGED <<mainVars, callVars, watchVars, wgoCmd, restartCount, procs, waitDone, pump, timer,
                   ctxDone,
                   watched, restartsSinceMatch, armedBy>>

\* SelectCmdResult as a bug would have it: under -exit Run returns nil
\* instead of the error of the last command.
SelectCmdResultExitNil ==
    /\ pc = "select"
    /\ cmdResult # "empty"
    /\ cmdResult' = "empty"
    /\ IF i = ArgsLen
       THEN IF wgoCmd.Exit
            THEN pc' = "done" /\ result' = "nil" /\ UNCHANGED i
            ELSE UNCHANGED <<pc, result, i>>
       ELSE IF cmdResult # "nil"
            THEN UNCHANGED <<pc, result, i>>
            ELSE pc' = "chain" /\ i' = i + 1 /\ UNCHANGED result
    /\ UNCHANGED <<mainVars, callVars, watchVars, wgoCmd, restartCount, procs, waitDone, pump, timer,
                   ctxDone,
                   watched, restartsSinceMatch, armedBy>>

\* SelectCmdResult as a bug would have it: the last command's error is
\* returned whether or not -exit is set.
SelectCmdResultAlwaysExit ==
    /\ pc = "select"
    /\ cmdResult # "empty"
    /\ cmdResult' = "empty"
    /\ IF i = ArgsLen
       THEN pc' = "done" /\ result' = cmdResult /\ UNCHANGED i
       ELSE IF cmdResult # "nil"
            THEN UNCHANGED <<pc, result, i>>
            ELSE pc' = "chain" /\ i' = i + 1 /\ UNCHANGED result
    /\ UNCHANGED <<mainVars, callVars, watchVars, wgoCmd, restartCount, procs, waitDone, pump, timer,
                   ctxDone,
                   watched, restartsSinceMatch, armedBy>>

\* SelectCmdResult as a bug would have it: a failed command that is not the
\* last ends Run with its error when -exit is set.
SelectCmdResultFailFast ==
    /\ pc = "select"
    /\ cmdResult # "empty"
    /\ cmdResult' = "empty"
    /\ IF i = ArgsLen
       THEN IF wgoCmd.Exit
            THEN pc' = "done" /\ result' = cmdResult /\ UNCHANGED i
            ELSE UNCHANGED <<pc, result, i>>
       ELSE IF cmdResult # "nil"
            THEN IF wgoCmd.Exit
                 THEN pc' = "done" /\ result' = cmdResult /\ UNCHANGED i
                 ELSE UNCHANGED <<pc, result, i>>
            ELSE pc' = "chain" /\ i' = i + 1 /\ UNCHANGED result
    /\ UNCHANGED <<mainVars, callVars, watchVars, wgoCmd, restartCount, procs, waitDone, pump, timer,
                   ctxDone,
                   watched, restartsSinceMatch, armedBy>>

\* `case err := <-cmdResult`: the last command returns its error under
\* -exit and otherwise leaves the loop waiting; another command leaves the
\* loop waiting when it failed and lets the chain go on when it succeeded.
SelectCmdResult ==
    /\ pc = "select"
    /\ cmdResult # "empty"
    /\ cmdResult' = "empty"
    /\ IF i = ArgsLen
       THEN IF wgoCmd.Exit
            THEN pc' = "done" /\ result' = cmdResult /\ UNCHANGED i
            ELSE UNCHANGED <<pc, result, i>>
       ELSE IF cmdResult # "nil"
            THEN UNCHANGED <<pc, result, i>>
            ELSE pc' = "chain" /\ i' = i + 1 /\ UNCHANGED result
    /\ UNCHANGED <<mainVars, callVars, watchVars, wgoCmd, restartCount, procs, waitDone, pump, timer,
                   ctxDone,
                   watched, restartsSinceMatch, armedBy>>

\* `case event := <-events` of the event loop.
SelectEvent(event) ==
    /\ pc = "select"
    /\ HandleEvent(event)
    /\ UNCHANGED <<mainVars, callVars, watchVars, wgoCmd, pc, restartCount, i, procs, cmdResult, waitDone,
                   pump,
                   ctxDone, result>>

\* `case <-timer.C: stop(cmd)`, up to the wait for waitDone.
SelectTimer ==
    /\ pc = "select"
    /\ timer.C
    /\ restartCount < MaxRestarts
    /\ timer' = [timer EXCEPT !.C = FALSE]
    /\ procs' = stop(procs, Cur)
    /\ pc' = "stopping"
    /\ restartsSinceMatch' = IF restartsSinceMatch < 2 THEN restartsSinceMatch + 1 ELSE 2
    /\ UNCHANGED <<mainVars, callVars, watchVars, wgoCmd, restartCount, i, cmdResult, waitDone, pump,
                   ctxDone,
                   watched, result, armedBy>>

\* Restart as a bug would have it: the next pass begins without the wait for
\* waitDone.
RestartNoWait ==
    /\ pc = "stopping"
    /\ NextPass
    /\ procs' = Forget(procs)
    /\ UNCHANGED <<mainVars, callVars, watchVars, wgoCmd, cmdResult, waitDone, pump, timer, ctxDone, watched,
                   result, restartsSinceMatch, armedBy>>

\* `<-waitDone; break CMD_CHAIN` of the timer case: the next pass begins.
Restart ==
    /\ pc = "stopping"
    /\ waitDone
    /\ NextPass
    /\ procs' = Forget(procs)
    /\ UNCHANGED <<mainVars, callVars, watchVars, wgoCmd, cmdResult, waitDone, pump, timer, ctxDone, watched,
                   result, restartsSinceMatch, armedBy>>

\* ------------------------------------------------------------------ environment

\* The context is cancelled: a signal, a cancel call or a timeout.
Cancel ==
    /\ pc # "done"
    /\ ~ctxDone
    /\ ctxDone' = TRUE
    /\ UNCHANGED <<mainVars, callVars, watchVars, wgoCmd, pc, restartCount, i, procs, cmdResult, waitDone,
                   pump,
                   timer, watched, result, restartsSinceMatch, armedBy>>

\* A running child exits, by itself or because of a signal, with a status.
ChildExit(c, status) ==
    /\ c \in DOMAIN procs
    /\ procs[c].st = "running"
    /\ procs' = [procs EXCEPT ![c].st = "zombie", ![c].status = status]
    /\ UNCHANGED <<mainVars, callVars, watchVars, wgoCmd, pc, restartCount, i, cmdResult, waitDone, pump,
                   timer,
                   ctxDone, watched, result, restartsSinceMatch, armedBy>>

\* The reaper goroutine of child c: wg.Wait() returns once the stdin pump is
\* over, cmd.Wait() returns once the child has exited, the error goes to
\* cmdResult and waitDone is closed.
Reap(c) ==
    /\ c \in DOMAIN procs
    /\ procs[c].st = "zombie"
    /\ c = Cur => pump # "copying"
    /\ procs' = [procs EXCEPT ![c].st = "reaped"]
    /\ IF c = Cur
       THEN cmdResult' = WaitError(procs[c].status) /\ waitDone' = TRUE
       ELSE UNCHANGED <<cmdResult, waitDone>>
    /\ UNCHANGED <<mainVars, callVars, watchVars, wgoCmd, pc, restartCount, i, pump, timer, ctxDone, watched,
                   result, restartsSinceMatch, armedBy>>

\* The stdin pump, io.Copy(stdinPipe, wgoCmd.Stdin), ends when wgoCmd.Stdin
\* reports end of input, or when it delivers data and the write to the pipe
\* of a child that has exited fails.
StdinRead(kind) ==
    /\ pump = "copying"
    /\ kind = "data" => (Cur \in DOMAIN procs /\ procs[Cur].st # "running")
    /\ pump' = "done"
    /\ UNCHANGED <<mainVars, callVars, watchVars, wgoCmd, pc, restartCount, i, procs, cmdResult, waitDone,
                   timer,
                   ctxDone, watched, result, restartsSinceMatch, armedBy>>

\* ------------------------------------------------------------------ main

\* The arguments the model draws after the program name.
Tokens ==
    {"wgo", "run", "::", ":::", "::::", "-exit", "-h", "-debounce", "-file",
     "10ms", "0", "(", "a"}

\* The argument vectors of at most MaxArgs arguments after the program name.
ArgVectors ==
    {<<"wgo">> \o t : t \in UNION {[1..n -> Tokens] : n \in 0..MaxArgs}}

\* The invocations whose instances are run: one and two instances, with and
\* without -exit, a chain of two commands, an instance without a command,
\* and the invocations that end in main before any instance runs.
MainArgs ==
    {<<"wgo">>,
     <<"wgo", "a">>,
     <<"wgo", "-exit", "a">>,
     <<"wgo", "a", "::", "a">>,
     <<"wgo", "-exit", "a", "::", "wgo", "a">>,
     <<"wgo", "-exit", "a", "::", "wgo", "-exit", "a">>,
     <<"wgo", "a", "::", "wgo", "-exit">>,
     <<"wgo", "a", "::", "wgo", "-h">>,
     <<"wgo", "-h", "::", "wgo", "-file", "(">>,
     <<"wgo", "a", "::", "wgo", "-file", "(">>,
     <<"wgo", "-debounce", "a", "a">>,
     <<"wgo", "a", "::", "wgo", "run">>}

\* The invocations main is followed on: those of MainArgs, and every
\* argument vector WgoCommands returns an error for.
MainVectors == MainArgs \cup {v \in ArgVectors : WgoCommands(v).err # "nil"}

\* Whether the process runs.
Alive == exitStatus = -1

\* The instances main has started.
Instances == DOMAIN runs

\* An instance as its goroutine is started: Run has not started a child.
NewRun ==
    [pc |-> "chain", i |-> 1, child |-> "none", status |-> 0, killed |-> FALSE,
     cmdResult |-> "empty", waitDone |-> FALSE, timerC |-> FALSE, result |-> "none"]

\* `if len(os.Args) == 1`: main prints the help text and returns.
MainHelp ==
    /\ Alive /\ mainPc = "start"
    /\ Len(osArgs) = 1
    /\ mainPc' = "returned"
    /\ exitStatus' = 0
    /\ UNCHANGED <<runVars, callVars, watchVars, ctxDone, osArgs, wgoCmds, runs, results, mainOk,
                   userInterrupt, handler>>

\* MainParse as a bug would have it: the help error is fatal like any other.
MainParseHelpFatal ==
    /\ Alive /\ mainPc = "start"
    /\ Len(osArgs) > 1
    /\ LET r == WgoCommands(osArgs)
       IN  IF r.err # "nil"
           THEN mainPc' = "fatal" /\ exitStatus' = 1 /\ UNCHANGED <<wgoCmds, handler>>
           ELSE /\ wgoCmds' = r.wgoCmds
                /\ mainPc' = "spawn"
                /\ handler' = "soft"
                /\ UNCHANGED exitStatus
    /\ UNCHANGED <<runVars, callVars, watchVars, ctxDone, osArgs, runs, results, mainOk, userInterrupt>>

\* main up to the loop that runs the WgoCmds: the signal goroutine is
\* started, os.Args is parsed; flag.ErrHelp makes main return, any other
\* error ends in log.Fatal.
MainParse ==
    /\ Alive /\ mainPc = "start"
    /\ Len(osArgs) > 1
    /\ LET r == WgoCommands(osArgs)
       IN  IF r.err = "help"
           THEN mainPc' = "returned" /\ exitStatus' = 0 /\ UNCHANGED <<wgoCmds, handler>>
           ELSE IF r.err # "nil"
           THEN mainPc' = "fatal" /\ exitStatus' = 1 /\ UNCHANGED <<wgoCmds, handler>>
           ELSE /\ wgoCmds' = r.wgoCmds
                /\ mainPc' = "spawn"
                /\ handler' = "soft"
                /\ UNCHANGED exitStatus
    /\ UNCHANGED <<runVars, callVars, watchVars, ctxDone, osArgs, runs, results, mainOk, userInterrupt>>

\* The loop that starts one goroutine for each WgoCmd.
MainSpawn ==
    /\ Alive /\ mainPc = "spawn"
    /\ runs' = [n \in 1..Len(wgoCmds) |-> NewRun]
    /\ mainPc' = "wait"
    /\ UNCHANGED <<runVars, callVars, watchVars, ctxDone, osArgs, wgoCmds, results, mainOk, userInterrupt,
                   handler, exitStatus>>

\* A signal arrives: os/signal sends it to userInterrupt without blocking,
\* so that it is dropped when the buffer of one is full.
Signal ==
    /\ Alive /\ handler # "off"
    /\ userInterrupt = 0
    /\ userInterrupt' = 1
    /\ UNCHANGED <<runVars, callVars, watchVars, ctxDone, osArgs, mainPc, wgoCmds, runs, results, mainOk,
                   handler, exitStatus>>

\* `<-userInterrupt; cancel()`: the soft interrupt.
HandlerSoft ==
    /\ Alive /\ handler = "soft"
    /\ userInterrupt > 0
    /\ userInterrupt' = userInterrupt - 1
    /\ ctxDone' = TRUE
    /\ handler' = "hard"
    /\ UNCHANGED <<runVars, callVars, watchVars, osArgs, mainPc, wgoCmds, runs, results, mainOk, exitStatus>>

\* HandlerHard as a bug would have it: the second signal cancels the
\* context once more and the process goes on.
HandlerHardCancelsAgain ==
    /\ Alive /\ handler = "hard"
    /\ userInterrupt > 0
    /\ userInterrupt' = userInterrupt - 1
    /\ ctxDone' = TRUE
    /\ UNCHANGED <<runVars, callVars, watchVars, osArgs, mainPc, wgoCmds, runs, results, mainOk, handler,
                   exitStatus>>

\* `<-userInterrupt; os.Exit(1)`: the hard interrupt.
HandlerHard ==
    /\ Alive /\ handler = "hard"
    /\ userInterrupt > 0
    /\ userInterrupt' = userInterrupt - 1
    /\ exitStatus' = 1
    /\ mainPc' = "interrupted"
    /\ UNCHANGED <<runVars, callVars, watchVars, ctxDone, osArgs, wgoCmds, runs, results, mainOk, handler>>

\* The steps of the Run of instance n as main sees them.  They are the steps
\* of Run above for a WgoCmd without -postpone and -stdin (the invocations of
\* MainArgs set neither), the file events and the debounce timer collapsed
\* to the moment the timer expires, and restartCount left out.

\* Return as a bug would have it: an instance that returns an error takes
\* the others down with it, their children are signalled.
ReturnStopsOthers(n, run, err) ==
    /\ runs' = [m \in Instances |->
                   IF m = n THEN [run EXCEPT !.pc = "done", !.result = err]
                   ELSE IF err # "nil" /\ runs[m].child = "running"
                        THEN [runs[m] EXCEPT !.killed = TRUE]
                        ELSE runs[m]]
    /\ results' = [results EXCEPT !.buf = Append(@, err)]

\* Run returns err, run being the instance as Run leaves it: the goroutine
\* of the instance sends err to results.
Return(n, run, err) ==
    /\ runs' = [runs EXCEPT ![n] = [run EXCEPT !.pc = "done", !.result = err]]
    /\ results' = [results EXCEPT !.buf = Append(@, err)]

\* Steps 1 and 2 of the loop body.  args[0] of a command without arguments
\* is an index out of range: the panic ends the process with status 2.
\* started is FALSE when exec.LookPath or cmd.Start fails.
RunStart(n, started) ==
    /\ Alive /\ mainPc = "wait" /\ n \in Instances
    /\ runs[n].pc = "chain"
    /\ IF Len(wgoCmds[n].ArgsList[runs[n].i]) = 0
       THEN /\ exitStatus' = 2
            /\ mainPc' = "panicked"
            /\ UNCHANGED <<runs, results>>
       ELSE /\ IF started
               THEN /\ runs' = [runs EXCEPT ![n].pc = "select", ![n].child = "running",
                                            ![n].status = 0, ![n].killed = FALSE,
                                            ![n].cmdResult = "empty",
                                            ![n].waitDone = FALSE]
                    /\ UNCHANGED results
               ELSE Return(n, runs[n], "starterr")
            /\ UNCHANGED <<exitStatus, mainPc>>
    /\ UNCHANGED <<runVars, callVars, watchVars, ctxDone, osArgs, wgoCmds, mainOk, userInterrupt, handler>>

\* `case <-wgoCmd.ctx.Done(): stop(cmd)`, up to the wait for waitDone.
RunCtxDone(n) ==
    /\ Alive /\ n \in Instances
    /\ runs[n].pc = "select"
    /\ ctxDone
    /\ runs' = [runs EXCEPT ![n].pc = "cancelling",
                            ![n].killed = (@ \/ runs[n].child = "running")]
    /\ UNCHANGED <<runVars, callVars, watchVars, ctxDone, osArgs, mainPc, wgoCmds, results, mainOk,
                   userInterrupt, handler, exitStatus>>

\* `<-waitDone; return nil` of the cancellation case.
RunReturnCancelled(n) ==
    /\ Alive /\ n \in Instances
    /\ runs[n].pc = "cancelling"
    /\ runs[n].waitDone
    /\ Return(n, runs[n], "nil")
    /\ UNCHANGED <<runVars, callVars, watchVars, ctxDone, osArgs, mainPc, wgoCmds, mainOk, userInterrupt,
                   handler, exitStatus>>

\* `case err := <-cmdResult`.
RunCmdResult(n) ==
    /\ Alive /\ n \in Instances
    /\ runs[n].pc = "select"
    /\ runs[n].cmdResult # "empty"
    /\ IF runs[n].i = Len(wgoCmds[n].ArgsList)
       THEN IF wgoCmds[n].Exit
            THEN Return(n, [runs[n] EXCEPT !.cmdResult = "empty"], runs[n].cmdResult)
            ELSE /\ runs' = [runs EXCEPT ![n].cmdResult = "empty"]
                 /\ UNCHANGED results
       ELSE /\ runs' = IF runs[n].cmdResult # "nil"
                       THEN [runs EXCEPT ![n].cmdResult = "empty"]
                       ELSE [runs EXCEPT ![n].cmdResult = "empty", ![n].pc = "chain",
                                         ![n].i = @ + 1, ![n].child = "none"]
            /\ UNCHANGED results
    /\ UNCHANGED <<runVars, callVars, watchVars, ctxDone, osArgs, mainPc, wgoCmds, mainOk, userInterrupt,
                   handler, exitStatus>>

\* The debounce timer of instance n expires after a matching file event.
RunTimerFire(n) ==
    /\ Alive /\ n \in Instances
    /\ runs[n].pc # "done"
    /\ ~runs[n].timerC
    /\ runs' = [runs EXCEPT ![n].timerC = TRUE]
    /\ UNCHANGED <<runVars, callVars, watchVars, ctxDone, osArgs, mainPc, wgoCmds, results, mainOk,
                   userInterrupt, handler, exitStatus>>

\* `case <-timer.C: stop(cmd)`, up to the wait for waitDone.
RunTimer(n) ==
    /\ Alive /\ n \in Instances
    /\ runs[n].pc = "select"
    /\ runs[n].timerC
    /\ runs' = [runs EXCEPT ![n].pc = "stopping", ![n].timerC = FALSE,
                            ![n].killed = (@ \/ runs[n].child = "running")]
    /\ UNCHANGED <<runVars, callVars, watchVars, ctxDone, osArgs, mainPc, wgoCmds, results, mainOk,
                   userInterrupt, handler, exitStatus>>

\* `<-waitDone; break CMD_CHAIN` of the timer case.
RunRestart(n) ==
    /\ Alive /\ n \in Instances
    /\ runs[n].pc = "stopping"
    /\ runs[n].waitDone
    /\ runs' = [runs EXCEPT ![n].pc = "chain", ![n].i = 1, ![n].child = "none"]
    /\ UNCHANGED <<runVars, callVars, watchVars, ctxDone, osArgs, mainPc, wgoCmds, results, mainOk,
                   userInterrupt, handler, exitStatus>>

\* The child of instance n exits, by itself or because of a signal.
RunChildExit(n, status) ==
    /\ Alive /\ n \in Instances
    /\ runs[n].child = "running"
    /\ runs' = [runs EXCEPT ![n].child = "zombie", ![n].status = status]
    /\ UNCHANGED <<runVars, callVars, watchVars, ctxDone, osArgs, mainPc, wgoCmds, results, mainOk,
                   userInterrupt, handler, exitStatus>>

\* The reaper goroutine of the child of instance n.
RunReap(n) ==
    /\ Alive /\ n \in Instances
    /\ runs[n].child = "zombie"
    /\ runs' = [runs EXCEPT ![n].child = "reaped",
                            ![n].cmdResult = WaitError(runs[n].status),
                            ![n].waitDone = TRUE]
    /\ UNCHANGED <<runVars, callVars, watchVars, ctxDone, osArgs, mainPc, wgoCmds, results, mainOk,
                   userInterrupt, handler, exitStatus>>

\* `wg.Wait(); close(results)`: every instance goroutine is over.
CloseResults ==
    /\ Alive /\ mainPc = "wait"
    /\ ~results.closed
    /\ \A n \in Instances : runs[n].pc = "done"
    /\ results' = [results EXCEPT !.closed = TRUE]
    /\ UNCHANGED <<runVars, callVars, watchVars, ctxDone, osArgs, mainPc, wgoCmds, runs, mainOk,
                   userInterrupt, handler, exitStatus>>

\* One iteration of `for err := range results`.
MainReceive ==
    /\ Alive /\ mainPc = "wait"
    /\ Len(results.buf) > 0
    /\ results' = [results EXCEPT !.buf = Tail(@)]
    /\ mainOk' = (mainOk /\ Head(results.buf) = "nil")
    /\ UNCHANGED <<runVars, callVars, watchVars, ctxDone, osArgs, mainPc, wgoCmds, runs, userInterrupt,
                   handler, exitStatus>>

\* The end of main: results is closed and drained, `if !ok { os.Exit(1) }`.
MainExit ==
    /\ Alive /\ mainPc = "wait"
    /\ results.closed /\ Len(results.buf) = 0
    /\ mainPc' = "returned"
    /\ exitStatus' = IF mainOk THEN 0 ELSE 1
    /\ UNCHANGED <<runVars, callVars, watchVars, ctxDone, osArgs, wgoCmds, runs, results, mainOk,
                   userInterrupt, handler>>

\* ------------------------------------------------------------------ specification

\* No call of match, compileRegexp or addDirsRecursively is followed on its own.
CallsAtRest ==
    /\ matchPath = ""
    /\ matchResult = [state |-> "off", ok |-> FALSE, file |-> ""]
    /\ rawPattern = ""
    /\ compiledRe = [state |-> "off", err |-> FALSE, re |-> ""]
    /\ walkDir = ""
    /\ cmdArgs = <<>>
    /\ joined = [state |-> "off", goos |-> "", out |-> ""]

\* The sources of file events are not followed.
WatchAtRest ==
    /\ fsDirs = {}
    /\ fsFiles = {}
    /\ pollers = <<>>
    /\ watcherState = [st |-> "off", name |-> "", queue |-> <<>>]
    /\ relayState = [st |-> "off", name |-> ""]
    /\ logLines = {}

\* main is not followed.
MainOff ==
    /\ osArgs = <<>>
    /\ mainPc = "off"
    /\ wgoCmds = <<>>
    /\ runs = <<>>
    /\ results = [buf |-> <<>>, closed |-> FALSE]
    /\ mainOk = TRUE
    /\ userInterrupt = 0
    /\ handler = "off"
    /\ exitStatus = -1
    /\ ctxDone = FALSE

\* No Run is followed step by step; the context is left to the specification.
RunIdle ==
    /\ pc = "off"
    /\ restartCount = 0
    /\ i = 1
    /\ procs = <<>>
    /\ cmdResult = "empty"
    /\ waitDone = FALSE
    /\ pump = "none"
    /\ timer = [armed |-> FALSE, left |-> 0, C |-> FALSE]
    /\ watched = {}
    /\ result = "none"
    /\ restartsSinceMatch = 0
    /\ armedBy = "none"

\* Run is about to enter its outer loop: the watcher holds the roots (unless
\* the instance polls), the timer is stopped and drained.
Init ==
    /\ wgoCmd \in WgoCmds
    /\ pc = "chain"
    /\ restartCount = 0
    /\ i = 1
    /\ procs = <<>>
    /\ cmdResult = "empty"
    /\ waitDone = FALSE
    /\ pump = "none"
    /\ timer = [armed |-> FALSE, left |-> 0, C |-> FALSE]
    /\ ctxDone = FALSE
    /\ watched = IF wgoCmd.PollDuration > 0 THEN {}
                 ELSE addDirsRecursively(wgoCmd, {}, wgoCmd.Roots[1],
                                         {wgoCmd.Roots[k] : k \in 1..Len(wgoCmd.Roots)})
    /\ result = "none"
    /\ restartsSinceMatch = 0
    /\ armedBy = "none"
    /\ osArgs = <<>>
    /\ mainPc = "off"
    /\ wgoCmds = <<>>
    /\ runs = <<>>
    /\ results = [buf |-> <<>>, closed |-> FALSE]
    /\ mainOk = TRUE
    /\ userInterrupt = 0
    /\ handler = "off"
    /\ exitStatus = -1
    /\ CallsAtRest
    /\ WatchAtRest

Next ==
    \/ EnterPostpone
    \/ PostponeCtxDone
    \/ \E event \in Events : PostponeEvent(event)
    \/ PostponeTimer
    \/ \E ok \in BOOLEAN : Start(ok)
    \/ SelectCtxDone
    \/ ReturnCancelled
    \/ SelectCmdResult
    \/ \E event \in Events : SelectEvent(event)
    \/ SelectTimer
    \/ Restart
    \/ Cancel
    \/ \E c \in ProcIds, status \in {0, 1} : ChildExit(c, status)
    \/ \E c \in ProcIds : Reap(c)
    \/ \E kind \in {"data", "eof"} : StdinRead(kind)
    \/ Tick
    \/ TimerFire

Spec == Init /\ [][Next]_vars

\* The Run that is modelled step by step is not part of main's
\* specifications: its variables rest.
RunAtRest ==
    /\ wgoCmd = [ArgsLen |-> 1, Exit |-> FALSE, EnableStdin |-> FALSE,
                 Postpone |-> FALSE, PollDuration |-> 0, Roots |-> <<cwd>>,
                 FileRegexps |-> <<>>, ExcludeFileRegexps |-> <<>>,
                 DirRegexps |-> <<>>, ExcludeDirRegexps |-> <<>>, isRun |-> FALSE]
    /\ RunIdle

\* main is about to test len(os.Args).
MainStart ==
    /\ mainPc = "start"
    /\ wgoCmds = <<>>
    /\ runs = <<>>
    /\ results = [buf |-> <<>>, closed |-> FALSE]
    /\ mainOk = TRUE
    /\ userInterrupt = 0
    /\ handler = "off"
    /\ exitStatus = -1
    /\ ctxDone = FALSE

\* The parser applied to every argument vector.
ParseInit == osArgs \in ArgVectors /\ MainStart /\ RunAtRest /\ CallsAtRest /\ WatchAtRest

ParseNext == MainHelp \/ MainParse

ParseSpec == ParseInit /\ [][ParseNext]_vars

\* main from start to exit.
MainInit == osArgs \in MainVectors /\ MainStart /\ RunAtRest /\ CallsAtRest /\ WatchAtRest

MainNext ==
    \/ MainHelp
    \/ MainParse
    \/ MainSpawn
    \/ \E n \in Instances, started \in BOOLEAN : RunStart(n, started)
    \/ \E n \in Instances : RunCtxDone(n)
    \/ \E n \in Instances : RunReturnCancelled(n)
    \/ \E n \in Instances : RunCmdResult(n)
    \/ \E n \in Instances : RunTimerFire(n)
    \/ \E n \in Instances : RunTimer(n)
    \/ \E n \in Instances : RunRestart(n)
    \/ \E n \in Instances, status \in {0, 1} : RunChildExit(n, status)
    \/ \E n \in Instances : RunReap(n)
    \/ CloseResults
    \/ MainReceive
    \/ MainExit
    \/ Signal
    \/ HandlerSoft
    \/ HandlerHard

MainSpec == MainInit /\ [][MainNext]_vars

\* match is called: it answers, and logs the path it matched the patterns
\* against.
Match ==
    /\ matchResult.state = "called"
    /\ matchResult' = [state |-> "returned", ok |-> match(wgoCmd, matchPath),
                       file |-> Normalized(wgoCmd, matchPath)]
    /\ UNCHANGED <<mainVars, runVars, watchVars, ctxDone, matchPath, rawPattern,
                   compiledRe, walkDir, cmdArgs, joined>>

\* match applied to every instance and path of MatchCmds and MatchPaths.
MatchInit ==
    /\ wgoCmd \in MatchCmds
    /\ matchPath \in MatchPaths
    /\ matchResult = [state |-> "called", ok |-> FALSE, file |-> ""]
    /\ rawPattern = "" /\ compiledRe = [state |-> "off", err |-> FALSE, re |-> ""] /\ walkDir = ""
    /\ cmdArgs = <<>> /\ joined = [state |-> "off", goos |-> "", out |-> ""]
    /\ RunIdle /\ MainOff /\ WatchAtRest

MatchNext == Match

MatchSpec == MatchInit /\ [][MatchNext]_vars

\* addDirsRecursively is called on an empty watcher with the root walkDir.
Walk ==
    /\ walkDir # "" /\ watched = {}
    /\ watched' = addDirsRecursively(wgoCmd, watched, walkDir, fsDirs)
    /\ UNCHANGED <<mainVars, callVars, wgoCmd, ctxDone, pc, restartCount, i, procs,
                   cmdResult, waitDone, pump, timer, result,
                   restartsSinceMatch, armedBy, fsDirs, fsFiles, pollers,
                   watcherState, relayState, logLines>>

\* addDirsRecursively applied to every instance of WalkCmds, every tree of
\* WalkTrees and every root of the instance that is in the tree.
WalkInit ==
    /\ wgoCmd \in WalkCmds
    /\ fsDirs \in WalkTrees
    /\ walkDir \in {wgoCmd.Roots[k] : k \in 1..Len(wgoCmd.Roots)} \cap fsDirs
    /\ matchPath = "" /\ rawPattern = "" /\ compiledRe = [state |-> "off", err |-> FALSE, re |-> ""]
    /\ matchResult = [state |-> "off", ok |-> FALSE, file |-> ""]
    /\ cmdArgs = <<>> /\ joined = [state |-> "off", goos |-> "", out |-> ""]
    /\ fsFiles = {} /\ pollers = <<>> /\ logLines = {}
    /\ watcherState = [st |-> "off", name |-> "", queue |-> <<>>]
    /\ relayState = [st |-> "off", name |-> ""]
    /\ RunIdle /\ MainOff

WalkNext == Walk

WalkSpec == WalkInit /\ [][WalkNext]_vars

\* compileRegexp is called: it returns the regexp it compiled or an error.
Compile ==
    /\ compiledRe.state = "called"
    /\ compiledRe' = [state |-> "returned",
                      err |-> compileRegexp(rawPattern).err,
                      re |-> compileRegexp(rawPattern).re]
    /\ UNCHANGED <<mainVars, runVars, watchVars, ctxDone, matchPath, matchResult,
                   rawPattern, walkDir, cmdArgs, joined>>

\* compileRegexp applied to every pattern of Patterns.
CompileInit ==
    /\ rawPattern \in Patterns
    /\ compiledRe = [state |-> "called", err |-> FALSE, re |-> ""]
    /\ matchPath = "" /\ walkDir = ""
    /\ cmdArgs = <<>> /\ joined = [state |-> "off", goos |-> "", out |-> ""]
    /\ matchResult = [state |-> "off", ok |-> FALSE, file |-> ""]
    /\ wgoCmd = [ArgsLen |-> 1, Exit |-> FALSE, EnableStdin |-> FALSE,
                 Postpone |-> FALSE, PollDuration |-> 0, Roots |-> <<"/r">>,
                 FileRegexps |-> <<>>, ExcludeFileRegexps |-> <<>>,
                 DirRegexps |-> <<>>, ExcludeDirRegexps |-> <<>>, isRun |-> FALSE]
    /\ RunIdle /\ MainOff /\ WatchAtRest

CompileNext == Compile

CompileSpec == CompileInit /\ [][CompileNext]_vars

\* ------------------------------------------------------------------ watching

\* The directories of the file system the watcher and the pollers look at.
\* Directories are created while Run runs; none is removed.
WatchDirs == {"/r", "/r/a", "/r/a/b", "/r/.git", "/r/node_modules"}

\* The regular files that are created while an instance that polls runs; none
\* is modified or removed.  The file events of the watcher are not followed.
WatchFiles == {"/r/a/main.go"}

\* The instances whose watching is followed: with the watcher or polling,
\* without patterns for directories or with one of each kind.
WatchCmds ==
    [ ArgsLen : {1},
      Exit : {FALSE},
      EnableStdin : {FALSE},
      Postpone : {FALSE},
      PollDuration : {0, 1},
      Roots : {<<"/r">>},
      FileRegexps : {<<>>},
      ExcludeFileRegexps : {<<>>},
      DirRegexps : {<<>>, <<".git">>},
      ExcludeDirRegexps : {<<>>, <<"b">>},
      isRun : {FALSE} ]

\* os.ReadDir(path): the directories and the files in path.
ReadDir(path) == {c \in fsDirs \cup fsFiles : c # path /\ Dir(c) = path}

\* The match closure of pollDirectory: whether the directory dir, found when
\* its parent is read for the first time, is polled.
pollMatch(w, dir) ==
    LET normalizedDir == Normalized(w, dir)
        name == Base(normalizedDir)
    IN  IF AnyMatch(w.ExcludeDirRegexps, normalizedDir) THEN FALSE
        ELSE IF AnyMatch(w.DirRegexps, normalizedDir) THEN TRUE
        ELSE IF name \in SkippedNames THEN FALSE
        ELSE IF HasPrefix(name, ".") THEN FALSE
        ELSE TRUE

\* The lines addDirsRecursively logs for the directories it adds.
WatchLines(w, dirs) == {<<"WATCH", Normalized(w, d)>> : d \in dirs}

\* A directory is created.  When its parent is watched the kernel queues a
\* create event for the watcher.
Mkdir(d) ==
    /\ d \in WatchDirs \ fsDirs
    /\ Dir(d) \in fsDirs
    /\ fsDirs' = fsDirs \cup {d}
    /\ watcherState' = IF Dir(d) \in watched
                       THEN [watcherState EXCEPT !.queue = Append(@, d)]
                       ELSE watcherState
    /\ UNCHANGED <<mainVars, runVars, callVars, ctxDone, fsFiles, pollers, relayState,
                   logLines>>

\* A regular file is created in a directory of an instance that polls, once
\* the start-up of the instance is over: the pollDirectory of the root has
\* read the root and is in its loop.
Touch(f) ==
    /\ wgoCmd.PollDuration > 0
    /\ pollers[wgoCmd.Roots[1]].st = "looping"
    /\ f \in WatchFiles \ fsFiles
    /\ Dir(f) \in fsDirs
    /\ fsFiles' = fsFiles \cup {f}
    /\ UNCHANGED <<mainVars, runVars, callVars, ctxDone, fsDirs, pollers, watcherState,
                   relayState, logLines>>

\* The goroutine of the watcher reads an event from the kernel and sends it
\* on watcher.Events.
WatcherRead ==
    /\ watcherState.st = "idle"
    /\ watcherState.queue # <<>>
    /\ watcherState' = [st |-> "sendingEvent", name |-> Head(watcherState.queue),
                        queue |-> Tail(watcherState.queue)]
    /\ UNCHANGED <<mainVars, runVars, callVars, ctxDone, fsDirs, fsFiles, pollers,
                   relayState, logLines>>

\* The goroutine of the watcher fails to read from the kernel and sends the
\* error on watcher.Errors, which has no buffer: it waits there until the
\* error is received or the watcher is closed.
WatcherFail ==
    /\ watcherState.st = "idle"
    /\ wgoCmd.PollDuration = 0
    /\ watcherState' = [watcherState EXCEPT !.st = "sendingError"]
    /\ UNCHANGED <<mainVars, runVars, callVars, ctxDone, fsDirs, fsFiles, pollers,
                   relayState, logLines>>

\* `event := <-watcher.Events` of the goroutine Run starts for the watcher.
RelayReceive ==
    /\ relayState.st = "receiving"
    /\ watcherState.st = "sendingEvent"
    /\ relayState' = [st |-> "sending", name |-> watcherState.name]
    /\ watcherState' = [watcherState EXCEPT !.st = "idle", !.name = ""]
    /\ UNCHANGED <<mainVars, runVars, callVars, ctxDone, fsDirs, fsFiles, pollers,
                   logLines>>

\* `case event := <-events` of Run for the create event of a directory that
\* the relaying goroutine sends: the directory is walked.
ReceiveFromWatcher ==
    /\ relayState.st = "sending"
    /\ relayState' = [st |-> "receiving", name |-> ""]
    /\ watched' = IF wgoCmd.PollDuration = 0
                  THEN addDirsRecursively(wgoCmd, watched, relayState.name, fsDirs)
                  ELSE watched
    /\ logLines' = logLines \cup WatchLines(wgoCmd, watched' \ watched)
    /\ UNCHANGED <<mainVars, callVars, ctxDone, wgoCmd, pc, restartCount, i, procs,
                   cmdResult, waitDone, pump, timer, result, restartsSinceMatch,
                   armedBy, fsDirs, fsFiles, pollers, watcherState>>

\* pollDirectory(path) up to its loop: it reads the directory, and starts a
\* pollDirectory for every directory in it that the match closure accepts
\* and a pollFile for every file in it; no event is sent for them.
PollStart(path) ==
    /\ path \in DOMAIN pollers
    /\ pollers[path].st = "starting"
    /\ LET started == {c \in ReadDir(path) \cap fsDirs : pollMatch(wgoCmd, c)}
           files == ReadDir(path) \cap fsFiles
       IN  /\ pollers' =
                  [c \in DOMAIN pollers \cup started \cup files |->
                      IF c = path THEN [st |-> "looping", names |-> ReadDir(path)]
                      ELSE IF c \in started THEN [st |-> "starting", names |-> {}]
                      ELSE IF c \in files THEN [st |-> "polling", names |-> {}]
                      ELSE pollers[c]]
           /\ logLines' = logLines \cup {<<"POLL", Normalized(wgoCmd, c)>> : c \in started}
    /\ UNCHANGED <<mainVars, runVars, callVars, ctxDone, fsDirs, fsFiles, watcherState,
                   relayState>>

\* One round of the loop of pollDirectory(path) that finds new names: for
\* each a goroutine is started that sends a create event and then calls
\* pollDirectory or pollFile.
PollLoop(path) ==
    /\ path \in DOMAIN pollers
    /\ pollers[path].st = "looping"
    /\ ReadDir(path) \ pollers[path].names # {}
    /\ pollers' =
           [c \in DOMAIN pollers \cup (ReadDir(path) \ pollers[path].names) |->
               IF c = path THEN [st |-> "looping", names |-> ReadDir(path)]
               ELSE IF c \in ReadDir(path) \ pollers[path].names
                    THEN [st |-> "sending", names |-> {}]
               ELSE pollers[c]]
    /\ UNCHANGED <<mainVars, runVars, callVars, ctxDone, fsDirs, fsFiles, watcherState,
                   relayState, logLines>>

\* The line match logs for the create event of a file.
MatchLine(w, path) ==
    <<IF match(w, path) THEN "CREATE" ELSE "(skip) CREATE", Normalized(w, path)>>

\* `case event := <-events` of Run for the create event a goroutine of
\* pollDirectory sends for path, and the goroutine goes on to pollDirectory
\* or pollFile.  For a directory Run does nothing when it polls; for a file
\* it calls match, which logs the file, and resets the timer when it matches.
ReceiveFromPoller(path) ==
    /\ path \in DOMAIN pollers
    /\ pollers[path].st = "sending"
    /\ pollers' = [pollers EXCEPT ![path].st = IF path \in fsFiles THEN "polling"
                                               ELSE "starting"]
    /\ HandleEvent([Op |-> {"CREATE"}, Name |-> path,
                    stat |-> IF path \in fsFiles THEN "file" ELSE "dir"])
    /\ logLines' = IF path \in fsFiles THEN logLines \cup {MatchLine(wgoCmd, path)}
                   ELSE logLines
    /\ UNCHANGED <<mainVars, callVars, ctxDone, wgoCmd, pc, restartCount, i, procs,
                   cmdResult, waitDone, pump, result, fsDirs, fsFiles, watcherState,
                   relayState>>

\* Run has created the watcher and the relaying goroutine, and for its root
\* has started pollDirectory when it polls and has walked it otherwise.
WatchInit ==
    /\ wgoCmd \in WatchCmds
    /\ fsDirs \in {t \in SUBSET WatchDirs :
                       "/r" \in t /\ \A d \in t : d = "/r" \/ Dir(d) \in t}
    /\ fsFiles = {}
    /\ watcherState = [st |-> "idle", name |-> "", queue |-> <<>>]
    /\ relayState = [st |-> "receiving", name |-> ""]
    /\ pollers = IF wgoCmd.PollDuration > 0
                 THEN [c \in {wgoCmd.Roots[1]} |-> [st |-> "starting", names |-> {}]]
                 ELSE <<>>
    /\ watched = IF wgoCmd.PollDuration > 0 THEN {}
                 ELSE addDirsRecursively(wgoCmd, {}, wgoCmd.Roots[1], fsDirs)
    /\ logLines = IF wgoCmd.PollDuration > 0
                  THEN {<<"POLL", wgoCmd.Roots[1]>>}
                  ELSE {<<"WATCH", wgoCmd.Roots[1]>>}
                           \cup WatchLines(wgoCmd, watched \ {wgoCmd.Roots[1]})
    /\ pc = "select" /\ restartCount = 0 /\ i = 1
    /\ procs = <<>> /\ cmdResult = "empty" /\ waitDone = FALSE /\ pump = "none"
    /\ timer = [armed |-> FALSE, left |-> 0, C |-> FALSE]
    /\ result = "none" /\ restartsSinceMatch = 0 /\ armedBy = "none"
    /\ CallsAtRest /\ MainOff

WatchNext ==
    \/ \E d \in WatchDirs : Mkdir(d)
    \/ \E f \in WatchFiles : Touch(f)
    \/ WatcherRead
    \/ WatcherFail
    \/ RelayReceive
    \/ ReceiveFromWatcher
    \/ \E path \in WatchDirs : PollStart(path)
    \/ \E path \in WatchDirs : PollLoop(path)
    \/ \E path \in WatchDirs \cup WatchFiles : ReceiveFromPoller(path)

WatchSpec == WatchInit /\ [][WatchNext]_vars

\* The goroutines of the program take their steps: the scheduler is fair to
\* the watcher, the relaying goroutine, Run and the pollers.  Nothing is
\* assumed of the file system.
FairWatchSpec ==
    /\ WatchSpec
    /\ WF_vars(WatcherRead)
    /\ WF_vars(RelayReceive)
    /\ WF_vars(ReceiveFromWatcher)
    /\ \A path \in WatchDirs :
           /\ WF_vars(PollStart(path))
           /\ WF_vars(PollLoop(path))
    /\ \A path \in WatchDirs \cup WatchFiles : WF_vars(ReceiveFromPoller(path))

\* ------------------------------------------------------------------ joinArgs

\* The backquote, which a string of this module holds only before a quote.
backquote == SubSeq("`'", 1, 1)

\* specialChars, extraSpecialChars and prefixChars of util_unix.go.
specialChars ==
    {"\\", "'", "\"", backquote, "$", "{", "[", "|", "&", ";", "<", ">", "(", ")", "*", "?", "!"}

extraSpecialChars == {" ", "\t", "\n"}

prefixChars == {"~"}

\* strings.IndexRune(s, c): the index from 0 of the first c, or -1.
IndexRune(s, c) ==
    IF \E k \in 1..Len(s) : SubSeq(s, k, k) = c
    THEN (CHOOSE k \in 1..Len(s) :
              /\ SubSeq(s, k, k) = c
              /\ \A j \in 1..(k - 1) : SubSeq(s, j, j) # c) - 1
    ELSE -1

\* strings.ContainsAny(s, chars).
ContainsAny(s, chars) == \E k \in 1..Len(s) : SubSeq(s, k, k) \in chars

\* strings.ReplaceAll(s, old, new) for an old of one character.
ReplaceAll(s, old, new) ==
    LET f[n \in 0..Len(s)] ==
            IF n = 0 THEN ""
            ELSE f[n - 1] \o (IF SubSeq(s, n, n) = old THEN new ELSE SubSeq(s, n, n))
    IN  f[Len(s)]

\* quoteScan as a bug would have it: the ~ is escaped wherever it stands.
RECURSIVE quoteScanEveryTilde(_, _, _, _)
quoteScanEveryTilde(word, k, prev, buf) ==
    IF k > Len(word)
    THEN [mode |-> "done",
          buf |-> IF prev <= Len(word) THEN buf \o SubSeq(word, prev, Len(word)) ELSE buf]
    ELSE LET c == SubSeq(word, k, k)
         IN  IF c \in specialChars \/ c \in prefixChars
             THEN quoteScanEveryTilde(word, k + 1, k + 1,
                                      buf \o SubSeq(word, prev, k - 1) \o "\\" \o c)
             ELSE IF c \in extraSpecialChars
             THEN [mode |-> "quote", buf |-> ""]
             ELSE quoteScanEveryTilde(word, k + 1, prev, buf)

\* The first loop of quote, from the character k of word on: prev is where
\* the characters not yet copied begin and buf what was written for the word.
\* It ends with the word written, or gives up for the quote mode, the buffer
\* truncated.
RECURSIVE quoteScan(_, _, _, _)
quoteScan(word, k, prev, buf) ==
    IF k > Len(word)
    THEN [mode |-> "done",
          buf |-> IF prev <= Len(word) THEN buf \o SubSeq(word, prev, Len(word)) ELSE buf]
    ELSE LET c == SubSeq(word, k, k)
         IN  IF c \in specialChars \/ (k = 1 /\ c \in prefixChars)
             THEN quoteScan(word, k + 1, k + 1,
                            buf \o SubSeq(word, prev, k - 1) \o "\\" \o c)
             ELSE IF c \in extraSpecialChars
             THEN [mode |-> "quote", buf |-> ""]
             ELSE quoteScan(word, k + 1, prev, buf)

\* The quote mode of quote: the loop over the single quotes of word and the
\* part after it.
RECURSIVE quoteMode(_, _, _)
quoteMode(word, inQuote, buf) ==
    LET n == IndexRune(word, "'")
    IN  IF Len(word) = 0 \/ n = -1
        THEN IF Len(word) > 0
             THEN buf \o (IF ~inQuote THEN "'" ELSE "") \o word \o "'"
             ELSE buf
        ELSE LET opened == IF n > 0
                           THEN buf \o (IF ~inQuote THEN "'" ELSE "") \o SubSeq(word, 1, n)
                           ELSE buf
                 closed == IF n > 0 \/ inQuote THEN opened \o "'" ELSE opened
             IN  quoteMode(SubSeq(word, n + 2, Len(word)), FALSE, closed \o "\\'")

\* quote(word, buf): what it writes to the buffer.
quote(word) ==
    IF Len(word) = 0 THEN "''"
    ELSE LET scanned == quoteScan(word, 1, 1, "")
         IN  IF scanned.mode = "done" THEN scanned.buf
             ELSE quoteMode(word, FALSE, "")

\* joinArgs of util_unix.go.
joinArgs(args) ==
    LET f[n \in 0..Len(args)] ==
            IF n = 0 THEN ""
            ELSE f[n - 1] \o (IF n # 1 THEN " " ELSE "") \o quote(args[n])
    IN  f[Len(args)]

\* joinArgs of util_windows.go.
joinArgsWindows(args) ==
    LET f[n \in 0..Len(args)] ==
            IF n = 0 THEN ""
            ELSE IF n = 1 THEN args[1]
            ELSE f[n - 1] \o " " \o
                 (IF args[n] = "" THEN "''"
                  ELSE IF ~ContainsAny(args[n], {" ", "'", backquote, "$", "(", ")", "{", "}",
                                                 "<", ">", "|", "&", ";", "*"})
                  THEN args[n]
                  ELSE "'" \o ReplaceAll(args[n], "'", "''") \o "'")
    IN  f[Len(args)]

\* The characters of the words joinArgs is called with: a letter, the white
\* space, the single quote, the tilde, and characters that are special for
\* one shell or for both.
QuoteChars == {"a", " ", "\t", "'", "~", "$", "!"}

\* The args joinArgs is called with: every word of at most MaxPattern
\* characters alone, after echo, and between echo and an empty word, and args
\* of Test_joinArgs.
ArgLists ==
    {<<w>> : w \in Strings(QuoteChars, MaxPattern)}
        \cup {<<"echo", w>> : w \in Strings(QuoteChars, MaxPattern)}
        \cup {<<"echo", w, "">> : w \in Strings(QuoteChars, MaxPattern)}
        \cup {<<"echo", "~user", "u~ser", " ~user", "!~user">>,
              <<"echo", "foo*", "M{ovies,usic}", "ab[cd]", "%3">>,
              <<"echo", "one", "", "three">>,
              <<"echo", "don't you know the dewey decimal system?">>}

\* joinArgs is called: the build for the platform decides which.
CallJoinArgs ==
    /\ joined.state = "called"
    /\ joined' = [joined EXCEPT !.state = "returned",
                                !.out = IF joined.goos = "windows"
                                        THEN joinArgsWindows(cmdArgs)
                                        ELSE joinArgs(cmdArgs)]
    /\ UNCHANGED <<mainVars, runVars, watchVars, ctxDone, matchPath, matchResult,
                   rawPattern, compiledRe, walkDir, cmdArgs>>

\* joinArgs applied to every args of ArgLists, on either platform.
JoinInit ==
    /\ cmdArgs \in ArgLists
    /\ joined \in [state : {"called"}, goos : {"unix", "windows"}, out : {""}]
    /\ matchPath = "" /\ rawPattern = "" /\ walkDir = ""
    /\ matchResult = [state |-> "off", ok |-> FALSE, file |-> ""]
    /\ compiledRe = [state |-> "off", err |-> FALSE, re |-> ""]
    /\ wgoCmd = [ArgsLen |-> 1, Exit |-> FALSE, EnableStdin |-> FALSE,
                 Postpone |-> FALSE, PollDuration |-> 0, Roots |-> <<"/r">>,
                 FileRegexps |-> <<>>, ExcludeFileRegexps |-> <<>>,
                 DirRegexps |-> <<>>, ExcludeDirRegexps |-> <<>>, isRun |-> FALSE]
    /\ RunIdle /\ MainOff /\ WatchAtRest

JoinNext == CallJoinArgs

JoinSpec == JoinInit /\ [][JoinNext]_vars

\* ------------------------------------------------------------------ properties

\* The selector takes `case err := <-cmdResult`: the only step that empties
\* the channel while the event loop runs.
TakesCmdResult == pc = "select" /\ cmdResult # "empty" /\ cmdResult' = "empty"

\* The selector takes `case <-timer.C`, in either select: a restart is
\* triggered.
TakesTimer ==
    \/ pc = "select" /\ pc' = "stopping"
    \/ pc = "postpone" /\ pc' = "chain"

\* The event loop waits for a change: the current child has exited, was
\* reaped, and its result has been received.
Suspended ==
    /\ pc = "select"
    /\ Cur \in DOMAIN procs
    /\ procs[Cur].st = "reaped"
    /\ cmdResult = "empty"

\* C1: a child for argv k+1 exists only when the child for argv k of the
\* same pass has exited with status zero; no later chain member is started
\* while an earlier one still runs or after it exited non-zero.
ChainIsSequential ==
    \A c \in DOMAIN procs :
        c[2] > 1 =>
            LET prev == <<c[1], c[2] - 1>>
            IN  /\ prev \in DOMAIN procs
                /\ procs[prev].st # "running"
                /\ procs[prev].status = 0

\* C1 witness: the second command of a chain runs after the first exited
\* with status zero.
ChainIsSequentialWitness ==
    /\ <<restartCount, 2>> \in DOMAIN procs
    /\ procs[<<restartCount, 2>>].st = "running"
    /\ procs[<<restartCount, 1>>].st = "reaped"

\* C2: at every moment the instance has at most one child that is started
\* and not yet reaped.
AtMostOneLiveChild == Cardinality(Live) <= 1

\* C2 witness: a child is live in a pass that a restart began, with the
\* context cancelled and the timer armed again.
AtMostOneLiveChildWitness ==
    /\ restartCount > 0
    /\ Cardinality(Live) = 1
    /\ ctxDone
    /\ timer.armed

\* C3: when the timer case is taken the current child is signalled if it
\* runs; a pass starts its first command only when no child of an earlier
\* pass is left unreaped; and no chain member follows one that was stopped.
RestartKillsAndReaps ==
    /\ pc = "stopping" =>
          /\ Cur \in DOMAIN procs
          /\ procs[Cur].st = "running" => procs[Cur].killed
    /\ \A c \in DOMAIN procs :
          /\ c[1] = restartCount
          /\ procs[c].killed => \A d \in DOMAIN procs : d[1] = c[1] => d[2] <= c[2]

\* C3 witness: a restart in the middle of a chain of two: the first command
\* was signalled and reaped, the loop is about to begin the next pass.
RestartKillsAndReapsWitness ==
    /\ pc = "stopping"
    /\ ArgsLen = 2 /\ i = 1
    /\ procs[Cur].killed
    /\ procs[Cur].st = "reaped"
    /\ waitDone

\* A file event for a regular file whose op includes create or write.
ModifyFileEvents == {e \in Events : e.stat = "file" /\ (Has(e, "CREATE") \/ Has(e, "WRITE"))}

\* C4: debounce.  A restart is triggered only when the timer has run its
\* full Debounce since the last matching event (it is not armed with ticks
\* left: ticks left = Debounce - ticks since that event), and at most once
\* for the matching events handled since the restart before.
DebounceOneRestartPerBurst ==
    [][TakesTimer =>
          /\ ~(timer.armed /\ timer.left > 0)
          /\ restartsSinceMatch = 0]_vars

\* C5: without filters and outside run mode every create or write event for
\* a regular file arms the timer for the full Debounce, and the event is
\* followed by no more than one restart.
NoFilterModifyRestartsOnce ==
    [][(/\ ~wgoCmd.isRun
        /\ Len(wgoCmd.FileRegexps) = 0 /\ Len(wgoCmd.ExcludeFileRegexps) = 0
        /\ Len(wgoCmd.DirRegexps) = 0 /\ Len(wgoCmd.ExcludeDirRegexps) = 0)
       =>
       /\ \A e \in ModifyFileEvents :
             (SelectEvent(e) \/ PostponeEvent(e)) =>
                 timer'.armed /\ timer'.left = Debounce /\ restartsSinceMatch' = 0
       /\ restartsSinceMatch' <= 1]_vars

\* C6: when the event loop takes the cancellation case it signals the child
\* if it runs, and it leaves the wait that follows only by returning nil,
\* with the child reaped.
CancelKillsReapsReturnsNil ==
    [][/\ (pc = "select" /\ pc' = "cancelling") =>
              /\ ctxDone
              /\ procs[Cur].st = "running" => procs'[Cur].killed
       /\ pc = "cancelling" =>
              \/ pc' = "cancelling"
              \/ /\ pc' = "done"
                 /\ result' = "nil"
                 /\ procs'[Cur].st = "reaped"
                 /\ Live' = {}]_vars

\* C6 witness: Run has returned nil after a cancellation; the child it
\* signalled while it ran has been reaped.
CancelKillsReapsReturnsNilWitness ==
    /\ pc = "done"
    /\ ctxDone
    /\ result = "nil"
    /\ Cur \in DOMAIN procs
    /\ procs[Cur].killed
    /\ procs[Cur].st = "reaped"

\* C7: once the context is cancelled, Run never returns the error of a
\* child's non-zero exit.
CancelWinsOverExitError ==
    [][(ctxDone /\ result = "none") => result' # "exiterr"]_vars

\* C8: with -exit, when the event loop receives the result of the last
\* command, Run returns at once: nil for status zero, the child's error
\* otherwise.
ExitReturnsLastStatus ==
    [][(TakesCmdResult /\ i = ArgsLen /\ wgoCmd.Exit) =>
          /\ pc' = "done"
          /\ procs[Cur].status = 0 => result' = "nil"
          /\ procs[Cur].status # 0 => result' = "exiterr"]_vars

\* C8 witness: under -exit Run has returned the error of the last command,
\* which exited non-zero by itself.
ExitReturnsLastStatusWitness ==
    /\ wgoCmd.Exit
    /\ pc = "done"
    /\ result = "exiterr"
    /\ i = ArgsLen
    /\ procs[Cur].status = 1
    /\ ~procs[Cur].killed

\* C9: without -exit, receiving the result of the last command neither ends
\* Run nor starts a child; the loop then stays where it is until the timer
\* case or the cancellation case is taken; and Run never returns a child's
\* exit error.
NoExitLastSuspends ==
    [][~wgoCmd.Exit =>
          /\ result' # "exiterr"
          /\ (TakesCmdResult /\ i = ArgsLen) =>
                 pc' = "select" /\ procs' = procs /\ result' = "none"
          /\ (Suspended /\ i = ArgsLen) =>
                 /\ procs' = procs
                 /\ \/ pc' = "select" /\ i' = i /\ restartCount' = restartCount
                    \/ timer.C /\ pc' = "stopping"
                    \/ ctxDone /\ pc' = "cancelling"]_vars

\* C9 witness: without -exit the last command has exited non-zero and the
\* loop waits for a change.
NoExitLastSuspendsWitness ==
    /\ ~wgoCmd.Exit
    /\ Suspended
    /\ i = ArgsLen
    /\ procs[Cur].status = 1
    /\ result = "none"

\* C10: receiving the non-zero result of a command that is not the last
\* neither starts the next command nor ends Run, with or without -exit; the
\* loop then stays where it is until the timer case or the cancellation
\* case is taken.
MidChainFailureSuspends ==
    [][/\ (TakesCmdResult /\ i < ArgsLen /\ procs[Cur].status # 0) =>
              pc' = "select" /\ i' = i /\ procs' = procs /\ result' = "none"
       /\ (Suspended /\ i < ArgsLen) =>
              /\ procs[Cur].status # 0
              /\ procs' = procs
              /\ \/ pc' = "select" /\ i' = i /\ restartCount' = restartCount
                 \/ timer.C /\ pc' = "stopping"
                 \/ ctxDone /\ pc' = "cancelling"]_vars

\* C10 witness: under -exit the first command of a chain of two has exited
\* non-zero; the loop waits for a change and the second was not started.
MidChainFailureSuspendsWitness ==
    /\ wgoCmd.Exit
    /\ Suspended
    /\ i < ArgsLen
    /\ procs[Cur].status = 1
    /\ result = "none"
    /\ <<restartCount, i + 1>> \notin DOMAIN procs

DriverWaitsForAll ==
    (~Alive /\ mainPc # "interrupted" /\ Len(wgoCmds) > 0) =>
        /\ Instances = 1..Len(wgoCmds)
        /\ \A n \in Instances : runs[n].pc = "done"
        /\ exitStatus = 0 <=> \A n \in Instances : runs[n].result = "nil"

\* C13: a step in which one instance returns leaves every other instance
\* and its child as they are, does not cancel the context and does not end
\* the process.
InstancesIndependent ==
    [][\A n \in Instances :
          (runs[n].pc # "done" /\ runs'[n].pc = "done") =>
              /\ \A m \in Instances \ {n} : runs'[m] = runs[m]
              /\ ctxDone' = ctxDone
              /\ Alive']_vars

\* C13 witness: the first instance has returned the error of its child under
\* -exit; the child of the second runs, unsignalled, the context is not
\* cancelled and the process runs.
InstancesIndependentWitness ==
    /\ Alive /\ ~ctxDone
    /\ Instances = {1, 2}
    /\ runs[1].pc = "done" /\ runs[1].result = "exiterr"
    /\ runs[2].pc = "select" /\ runs[2].child = "running" /\ ~runs[2].killed

\* C14: the context is cancelled by the signal goroutine's first receive and
\* by nothing else, and the process goes on; its second receive ends the
\* process with status 1 in that step, whatever the instances are doing.
SoftThenHardInterrupt ==
    [][/\ (~ctxDone /\ ctxDone') <=> (handler = "soft" /\ handler' = "hard")
       /\ (handler = "soft" /\ handler' = "hard") => Alive'
       /\ (handler = "hard" /\ userInterrupt' < userInterrupt) =>
              /\ exitStatus' = 1
              /\ runs' = runs]_vars

\* C14 witness: the process has ended with status 1 by the hard interrupt
\* while an instance waits for the child it signalled, which still runs, and
\* another has not seen the cancellation yet.
SoftThenHardInterruptWitness ==
    /\ mainPc = "interrupted" /\ exitStatus = 1
    /\ ctxDone
    /\ Instances = {1, 2}
    /\ runs[1].pc = "cancelling" /\ runs[1].child = "running"
    /\ runs[2].pc = "select" /\ runs[2].child = "running"

\* The positions in args, after the program name, of the pairs "::", "wgo".
Pairs(args) ==
    {k \in 2..(Len(args) - 1) : args[k] = "::" /\ args[k + 1] = "wgo"}

\* The position of the m-th pair of args.
PairPos(args, m) ==
    CHOOSE k \in Pairs(args) : Cardinality({q \in Pairs(args) : q < k}) = m - 1

\* The arguments of the m-th instance of args as the pairs delimit them:
\* from after the program name or the pair before, up to the next pair or
\* the end.
InstanceArgs(args, m) ==
    SubSeq(args,
           IF m = 1 THEN 2 ELSE PairPos(args, m - 1) + 2,
           IF m = Cardinality(Pairs(args)) + 1 THEN Len(args)
           ELSE PairPos(args, m) - 1)

\* Whether the arguments seg of an instance have, before position k, nothing
\* but -exit flags after an optional "run".
OnlyExitBefore(seg, k) ==
    \A q \in 1..(k - 1) : seg[q] = "-exit" \/ (q = 1 /\ seg[q] = "run")

\* The regexp of a -file flag of seg does not compile.
InvalidRegex(seg) ==
    \E k \in 1..(Len(seg) - 1) :
        OnlyExitBefore(seg, k) /\ seg[k] = "-file" /\ seg[k + 1] = "("

\* The value of a -debounce flag of seg is no duration.
BadDuration(seg) ==
    \E k \in 1..(Len(seg) - 1) :
        OnlyExitBefore(seg, k) /\ seg[k] = "-debounce" /\ seg[k + 1] \notin {"10ms", "0"}

\* seg is in run mode and names no package.
MissingPackage(seg) ==
    /\ Len(seg) > 0 /\ seg[1] = "run"
    /\ \A q \in 2..Len(seg) : seg[q] = "-exit"

\* seg has -h among its flags.
HelpRequested(seg) ==
    \E k \in 1..Len(seg) : OnlyExitBefore(seg, k) /\ seg[k] = "-h"

\* Whether the arguments of some instance of args hold an invalid regexp,
\* a bad duration, or run mode without a package.
ConfigError(args) ==
    \E m \in 1..(Cardinality(Pairs(args)) + 1) :
        \/ InvalidRegex(InstanceArgs(args, m))
        \/ BadDuration(InstanceArgs(args, m))
        \/ MissingPackage(InstanceArgs(args, m))

\* C15 as stated: when the arguments of an instance hold an invalid regexp,
\* a bad duration, or run mode without a package, no instance is ever
\* started and the process ends after parsing with a status other than 0.
ConfigErrorExitsNonZero ==
    ConfigError(osArgs) =>
        /\ runs = <<>>
        /\ mainPc \in {"start", "fatal"}
        /\ mainPc = "fatal" => exitStatus = 1

\* C15 amended: the same, unless WgoCommands returns the help error.
ConfigErrorBeforeAnyStart ==
    (ConfigError(osArgs) /\ WgoCommands(osArgs).err # "help") =>
        /\ runs = <<>>
        /\ mainPc \in {"start", "fatal"}
        /\ mainPc = "fatal" => exitStatus = 1

\* C15 witness: the process has ended with status 1 on an invocation whose
\* second instance has the configuration error, the first having a command
\* to run.
ConfigErrorBeforeAnyStartWitness ==
    /\ mainPc = "fatal" /\ exitStatus = 1 /\ runs = <<>>
    /\ Cardinality(Pairs(osArgs)) = 1
    /\ WgoCommand(InstanceArgs(osArgs, 1)).err = "nil"
    /\ Len(WgoCommand(InstanceArgs(osArgs, 1)).cmd.ArgsList[1]) > 0
    /\ \/ InvalidRegex(InstanceArgs(osArgs, 2))
       \/ BadDuration(InstanceArgs(osArgs, 2))
       \/ MissingPackage(InstanceArgs(osArgs, 2))

Positional(cmd) ==
    Parse(NewFlagSet(cmd.args, cmd.isRun)).args

\* The tokens of argv written as the user writes them: a token of two or
\* more colons only gets one colon more.
Escaped(argv) ==
    [k \in 1..Len(argv) |->
        IF Len(argv[k]) > 1 /\ \A q \in 1..Len(argv[k]) : SubSeq(argv[k], q, q) = ":"
        THEN ":" \o argv[k]
        ELSE argv[k]]

\* The commands of a chain written as the user writes them, "::" between
\* one command and the next.
Joined(ArgsList) ==
    LET F[k \in 1..Len(ArgsList)] ==
            IF k = 1 THEN Escaped(ArgsList[1])
            ELSE F[k - 1] \o <<"::">> \o Escaped(ArgsList[k])
    IN  F[Len(ArgsList)]

\* C18: the chain of an instance that is not in run mode, written back with
\* "::" between its commands and one colon more on every token of two or
\* more colons, is the sequence of the instance's positional tokens: every
\* "::" started a new command and is in none, every token of three or more
\* colons lost one colon, every other token is unchanged, all in order.
ChainSplit ==
    mainPc = "spawn" =>
        \A m \in 1..Len(wgoCmds) :
            ~wgoCmds[m].isRun =>
                Joined(wgoCmds[m].ArgsList) = Positional(wgoCmds[m])

\* C18 witness: a chain of two commands, the first with a token, the second
\* with the token "::" that was written ":::".
ChainSplitWitness ==
    /\ mainPc = "spawn"
    /\ \E m \in 1..Len(wgoCmds) :
          /\ ~wgoCmds[m].isRun
          /\ Len(wgoCmds[m].ArgsList) = 2
          /\ Len(wgoCmds[m].ArgsList[1]) > 0
          /\ "::" \in Range(wgoCmds[m].ArgsList[2])
          /\ ":::" \in Range(Positional(wgoCmds[m]))

\* C19: whenever WgoCommands returns WgoCmds, the first command of every
\* chain has a token: arguments that would leave it empty are refused with
\* an error.
FirstArgvNotEmpty ==
    mainPc = "spawn" =>
        \A m \in 1..Len(wgoCmds) : Len(wgoCmds[m].ArgsList[1]) > 0

\* C20 as stated: the chain of an instance in run mode has two commands, the
\* second being the executable with every token after the package.
RunChainHasTwo ==
    mainPc = "spawn" =>
        \A m \in 1..Len(wgoCmds) :
            wgoCmds[m].isRun =>
                /\ Len(wgoCmds[m].ArgsList) = 2
                /\ Len(wgoCmds[m].ArgsList[2]) = Len(Positional(wgoCmds[m]))

\* C20 amended: the chain of an instance in run mode begins with the build
\* command, which ends with the package, and the executable; the tokens
\* after the package are split as in any chain, those up to the first "::"
\* being the arguments of the executable and every "::" starting a further
\* command.
RunChainBeginsWithTwo ==
    mainPc = "spawn" =>
        \A m \in 1..Len(wgoCmds) :
            wgoCmds[m].isRun =>
                /\ Len(wgoCmds[m].ArgsList) >= 2
                /\ SubSeq(wgoCmds[m].ArgsList[1], 1, 4)
                       = <<"go", "build", "-o", wgoCmds[m].executablePath>>
                /\ wgoCmds[m].ArgsList[1][Len(wgoCmds[m].ArgsList[1])]
                       = Positional(wgoCmds[m])[1]
                /\ Head(wgoCmds[m].ArgsList[2]) = wgoCmds[m].executablePath
                /\ Joined(<<Tail(wgoCmds[m].ArgsList[2])>>
                              \o SubSeq(wgoCmds[m].ArgsList, 3, Len(wgoCmds[m].ArgsList)))
                       = Tail(Positional(wgoCmds[m]))

\* C20 witness: an instance in run mode whose chain has a third command,
\* with a token, after the build command and the executable.
RunChainBeginsWithTwoWitness ==
    /\ mainPc = "spawn"
    /\ \E m \in 1..Len(wgoCmds) :
          /\ wgoCmds[m].isRun
          /\ Len(wgoCmds[m].ArgsList) = 3
          /\ Len(wgoCmds[m].ArgsList[3]) > 0

\* The path the patterns for files are matched against.
F == Normalized(wgoCmd, matchPath)

\* The directory the patterns for directories are matched against: the
\* parent of F.
D == Dir(Normalized(wgoCmd, matchPath))

\* Whether one of the exclusion steps of the matcher applies to the path.
Excluded ==
    \/ AnyMatch(wgoCmd.ExcludeDirRegexps, D)
    \/ Len(wgoCmd.DirRegexps) > 0 /\ ~AnyMatch(wgoCmd.DirRegexps, D)
    \/ AnyMatch(wgoCmd.ExcludeFileRegexps, F)

\* C21: match answers false whenever an exclusion step applies, whether or
\* not an include pattern for files matches.
ExclusionPrecedence ==
    (matchResult.state = "returned" /\ Excluded) => ~matchResult.ok

\* C21 witness: match has answered false for a path an include pattern for
\* files matches, because an exclude pattern for directories matches its
\* parent.
ExclusionPrecedenceWitness ==
    /\ matchResult.state = "returned"
    /\ ~matchResult.ok
    /\ AnyMatch(wgoCmd.FileRegexps, F)
    /\ AnyMatch(wgoCmd.ExcludeDirRegexps, D)
    /\ ~AnyMatch(wgoCmd.ExcludeFileRegexps, F)

\* C22: in run mode, for a path no exclusion step applies to and no include
\* pattern for files matches, match answers true exactly when the path ends
\* in .go and not in _test.go.
RunModeDefaultFilter ==
    (/\ matchResult.state = "returned"
     /\ wgoCmd.isRun
     /\ ~Excluded
     /\ ~AnyMatch(wgoCmd.FileRegexps, F))
    => (matchResult.ok <=> (HasSuffix(F, ".go") /\ ~HasSuffix(F, "_test.go")))

\* C22 witness: in run mode, with include patterns none of which matches,
\* match has answered true for a .go file.
RunModeDefaultFilterWitness ==
    /\ matchResult.state = "returned"
    /\ wgoCmd.isRun /\ ~Excluded
    /\ Len(wgoCmd.FileRegexps) > 0 /\ ~AnyMatch(wgoCmd.FileRegexps, F)
    /\ matchResult.ok
    /\ HasSuffix(F, "x.go")

\* C23: outside run mode, for a path no exclusion step applies to and no
\* include pattern for files matches, match answers true exactly when there
\* is no include pattern for files.
PlainModeDefault ==
    (/\ matchResult.state = "returned"
     /\ ~wgoCmd.isRun
     /\ ~Excluded
     /\ ~AnyMatch(wgoCmd.FileRegexps, F))
    => (matchResult.ok <=> Len(wgoCmd.FileRegexps) = 0)

\* C23 witness: outside run mode match has answered false for a .go file
\* because there are include patterns and none matches.
PlainModeDefaultWitness ==
    /\ matchResult.state = "returned"
    /\ ~wgoCmd.isRun /\ ~Excluded
    /\ Len(wgoCmd.FileRegexps) > 0 /\ ~AnyMatch(wgoCmd.FileRegexps, F)
    /\ ~matchResult.ok

\* The position of the first slash of p, 0 when it has none.
FirstSlash(p) ==
    IF \E k \in 1..Len(p) : SubSeq(p, k, k) = "/"
    THEN CHOOSE k \in 1..Len(p) :
             /\ SubSeq(p, k, k) = "/"
             /\ \A j \in 1..(k - 1) : SubSeq(p, j, j) # "/"
    ELSE 0

\* The components of a path: the names between its slashes.
RECURSIVE Components(_)
Components(p) ==
    IF p = "" THEN <<>>
    ELSE IF FirstSlash(p) = 0 THEN <<p>>
    ELSE IF FirstSlash(p) = 1 THEN Components(SubSeq(p, 2, Len(p)))
    ELSE <<SubSeq(p, 1, FirstSlash(p) - 1)>>
             \o Components(SubSeq(p, FirstSlash(p) + 1, Len(p)))

\* The names of a sequence joined with slashes.
RECURSIVE JoinSlash(_)
JoinSlash(names) ==
    IF names = <<>> THEN ""
    ELSE IF Len(names) = 1 THEN names[1]
    ELSE names[1] \o "/" \o JoinSlash(Tail(names))

\* Whether the directory root is a directory prefix of the path p: the
\* components of root begin those of p, and p has more.
IsDirPrefix(root, p) ==
    /\ Len(Components(root)) < Len(Components(p))
    /\ SubSeq(Components(p), 1, Len(Components(root))) = Components(root)

\* The root-relative path of p: p without the first root that is a directory
\* prefix of it, p itself when there is none.
RootRelative(roots, p) ==
    IF \E k \in 1..Len(roots) : IsDirPrefix(roots[k], p)
    THEN LET k == CHOOSE n \in 1..Len(roots) :
                      /\ IsDirPrefix(roots[n], p)
                      /\ \A j \in 1..(n - 1) : ~IsDirPrefix(roots[j], p)
         IN  JoinSlash(SubSeq(Components(p), Len(Components(roots[k])) + 1,
                              Len(Components(p))))
    ELSE p

\* C24: the path match tries the patterns on is the root-relative path: the
\* path without the first root that is a directory prefix of it, the path
\* itself when no root is.
RootRelativePath ==
    matchResult.state = "returned"
    => matchResult.file = RootRelative(wgoCmd.Roots, matchPath)

\* Whether the directory d is one of the roots.
IsRoot(d) == \E k \in 1..Len(wgoCmd.Roots) : wgoCmd.Roots[k] = d

\* Whether the registrar's rules keep the non-root directory d: no exclude
\* pattern matches its root-relative path, and an include pattern matches it
\* or its name is neither default-skipped nor begins with a dot.
Kept(d) ==
    /\ ~AnyMatch(wgoCmd.ExcludeDirRegexps, RootRelative(wgoCmd.Roots, d))
    /\ \/ AnyMatch(wgoCmd.DirRegexps, RootRelative(wgoCmd.Roots, d))
       \/ /\ Components(d)[Len(Components(d))] \notin SkippedNames
          /\ SubSeq(Components(d)[Len(Components(d))], 1, 1) # "."

\* C25: after the walk of a root the watcher holds the root, and a directory
\* below it exactly when the walk reached it (its parent is held, a skipped
\* directory hiding its whole subtree) and it is a root or the rules keep
\* it: no exclude pattern matches it, and an include pattern matches it or
\* its name is neither default-skipped nor dot-prefixed.
RegistrarDecisionOrder ==
    watched # {} =>
        /\ walkDir \in watched
        /\ watched \subseteq fsDirs
        /\ \A d \in fsDirs \ {walkDir} :
               d \in watched <=>
                   /\ HasPrefix(d, walkDir \o "/")
                   /\ Dir(d) \in watched
                   /\ IsRoot(d) \/ Kept(d)

\* C25 witness: a walk has watched .git because an include pattern matches
\* it, and has skipped an excluded directory together with a directory
\* below it that an include pattern matches.
RegistrarDecisionOrderWitness ==
    /\ watched # {}
    /\ "/r/.git" \in watched /\ ~IsRoot("/r/.git")
    /\ "/r/sub/args" \in fsDirs /\ ~IsRoot("/r/sub")
    /\ AnyMatch(wgoCmd.DirRegexps, "sub/args")
    /\ AnyMatch(wgoCmd.ExcludeDirRegexps, "sub")
    /\ "/r/sub" \notin watched /\ "/r/sub/args" \notin watched
    /\ "/r/.config" \in fsDirs \ watched

\* What a backslash followed by the character c matches: `\a` is the bell
\* character, a backslash before punctuation is that punctuation.
EscapeOf(c) == IF c = "a" THEN "BEL" ELSE c

\* The regexp re as a sequence of atoms from position k on: a dot matches
\* any character, an escaped character and any other character match
\* themselves.
RECURSIVE Atoms(_, _)
Atoms(re, k) ==
    IF k > Len(re) THEN <<>>
    ELSE IF SubSeq(re, k, k) = "\\"
         THEN <<[any |-> FALSE, c |-> EscapeOf(SubSeq(re, k + 1, k + 1))]>>
                  \o Atoms(re, k + 2)
    ELSE IF SubSeq(re, k, k) = "."
         THEN <<[any |-> TRUE, c |-> "."]>> \o Atoms(re, k + 1)
    ELSE <<[any |-> FALSE, c |-> SubSeq(re, k, k)]>> \o Atoms(re, k + 1)

\* Regexp.MatchString: whether the atoms match somewhere in s.
MatchesAtoms(atoms, s) ==
    \E pos \in 1..(Len(s) + 1) :
        /\ pos + Len(atoms) - 1 <= Len(s)
        /\ \A j \in 1..Len(atoms) :
               atoms[j].any \/ atoms[j].c = SubSeq(s, pos + j - 1, pos + j - 1)

\* The strings the regexps are tried on.
Subjects == Strings({".", "a", "/", "-"}, MaxPattern)

\* Whether compiling the pattern raw gives what compileRegexp returned: an
\* error in both cases, or regexps that match the same strings.
SameAsRaw ==
    /\ compiledRe.err <=> SyntaxError(rawPattern)
    /\ ~compiledRe.err =>
           \A s \in Subjects :
               MatchesAtoms(Atoms(compiledRe.re, 1), s)
                   <=> MatchesAtoms(Atoms(rawPattern, 1), s)

\* Whether every dot of the pattern is followed by something that is not a
\* letter, or by nothing.
EveryDotBeforeNonLetter ==
    \A k \in 1..Len(rawPattern) :
        SubSeq(rawPattern, k, k) = "."
            => (k = Len(rawPattern) \/ SubSeq(rawPattern, k + 1, k + 1) \notin Letters)

\* C30 as stated: for a pattern in which every dot is followed by a
\* non-letter, the regexp compileRegexp returns matches the same strings as
\* the pattern compiled raw.
DotSugarNeutral ==
    (compiledRe.state = "returned" /\ EveryDotBeforeNonLetter) => SameAsRaw

\* C30: for a pattern in which every dot is followed by a non-letter and
\* that does not begin with "./" followed by at least one character, the
\* regexp compileRegexp returns matches the same strings as the pattern
\* compiled raw.
DotSugarNeutralUnlessDotSlash ==
    (/\ compiledRe.state = "returned"
     /\ EveryDotBeforeNonLetter
     /\ ~(HasPrefix(rawPattern, "./") /\ Len(rawPattern) > 2))
    => SameAsRaw

\* C30 witness: compileRegexp has returned a regexp for a pattern that has a
\* dot, followed by a non-letter, which matches some strings and not others.
DotSugarNeutralWitness ==
    /\ compiledRe.state = "returned" /\ ~compiledRe.err
    /\ EveryDotBeforeNonLetter
    /\ \E k \in 1..(Len(rawPattern) - 1) :
           /\ SubSeq(rawPattern, k, k) = "."
           /\ (k = 1 \/ SubSeq(rawPattern, k - 1, k - 1) # "\\")
    /\ ~(HasPrefix(rawPattern, "./") /\ Len(rawPattern) > 2)
    /\ \E s \in Subjects : MatchesAtoms(Atoms(compiledRe.re, 1), s)
    /\ \E s \in Subjects : ~MatchesAtoms(Atoms(compiledRe.re, 1), s)

\* What holds of an instance with Postpone in every state: in the first
\* pass it is at the head of the loop, in the postponed select or has
\* returned nil, it has started no child, and its timer is only armed by a
\* matching event; no child belongs to the first pass; later passes are not
\* postponed.
PostponeState ==
    wgoCmd.Postpone =>
        /\ restartCount = 0 =>
               /\ pc \in {"chain", "postpone", "done"}
               /\ pc = "done" => result = "nil"
               /\ DOMAIN procs = {}
               /\ (timer.armed \/ timer.C) => armedBy = "modify"
        /\ \A c \in DOMAIN procs : c[1] >= 1
        /\ restartCount >= 1 => pc # "postpone"

\* What holds of every step of an instance with Postpone: the first pass
\* ends only when the postponed select receives from the timer, and the
\* next pass begins with the first command of the chain.
PostponeStep ==
    (wgoCmd.Postpone /\ restartCount = 0 /\ restartCount' # 0)
    => /\ pc = "postpone" /\ timer.C /\ ~timer'.C
       /\ restartCount' = 1 /\ i' = 1 /\ pc' = "chain"

\* C27: with Postpone no child is started before the timer has fired once:
\* the first pass waits in the postponed select, where a matching event
\* arms the timer and cancellation makes Run return nil with no child
\* started; the first command is started after the timer was received, and
\* no later pass is postponed.
PostponedFirstPass == [](PostponeState) /\ [][PostponeStep]_vars

\* C27 witness: an instance with Postpone runs the first command of its
\* chain, in the pass after the postponed one.
PostponedFirstPassWitness ==
    /\ wgoCmd.Postpone
    /\ restartCount = 1 /\ i = 1 /\ pc = "select"
    /\ <<1, 1>> \in DOMAIN procs /\ procs[<<1, 1>>].st = "running"
    /\ armedBy = "modify"

\* Whether the step starts the child of the current iteration.
StartsCur == Cur \notin DOMAIN procs /\ Cur \in DOMAIN procs'

\* C28: a step that starts a child starts a stdin pump for it exactly when
\* EnableStdin is set and the child is the last command of the chain, and
\* no other step starts a stdin pump.
StdinOnlyForLast ==
    [][/\ StartsCur => (pump' = "copying" <=> (wgoCmd.EnableStdin /\ i = ArgsLen))
       /\ (pump # "copying" /\ pump' = "copying") => StartsCur]_vars

\* C28 witness: in a pass after the first, an instance with stdin enabled and
\* a chain of two commands has started the second with a stdin pump after
\* it ran the first without one.
StdinOnlyForLastWitness ==
    /\ wgoCmd.EnableStdin /\ ArgsLen = 2
    /\ restartCount >= 1 /\ i = 2
    /\ <<restartCount, 1>> \in DOMAIN procs /\ <<restartCount, 2>> \in DOMAIN procs
    /\ pump = "copying"

\* The directories the registrar would watch in the file system as it is.
RegistrarWatches == addDirsRecursively(wgoCmd, {}, wgoCmd.Roots[1], fsDirs)

\* The directories pollDirectory has been called for.
Polled == {d \in DOMAIN pollers : pollers[d].st \in {"starting", "looping"}}

\* Whether every poller of a directory has read its directory and knows
\* every name in it, and every poller of a file is in pollFile.
PollersSettled ==
    \A d \in DOMAIN pollers :
        \/ pollers[d].st = "polling"
        \/ pollers[d].st = "looping" /\ pollers[d].names = ReadDir(d)

\* C26: when Run polls, a directory is polled only if the registrar would
\* watch it, and once the pollers have seen every directory the polled
\* directories are exactly those the registrar would watch.
PollingAsRegistrar ==
    wgoCmd.PollDuration > 0 =>
        /\ Polled \subseteq RegistrarWatches
        /\ PollersSettled => Polled = RegistrarWatches

\* C29: an error of the watcher is written to the logger.
WatcherErrorLogged ==
    (watcherState.st = "sendingError") ~> (\E line \in logLines : line[1] = "ERROR")

\* C33: whenever WgoCommands returns WgoCmds, every chain has at least one
\* command and every command of every chain has at least one token.
EveryArgvNotEmpty ==
    mainPc = "spawn" =>
        \A m \in 1..Len(wgoCmds) :
            /\ Len(wgoCmds[m].ArgsList) >= 1
            /\ \A k \in 1..Len(wgoCmds[m].ArgsList) : Len(wgoCmds[m].ArgsList[k]) > 0

\* C34: whenever WgoCommands returns WgoCmds, the Debounce of each is
\* greater than zero.
DebouncePositive ==
    mainPc = "spawn" => \A m \in 1..Len(wgoCmds) : wgoCmds[m].Debounce > 0

\* Whether the registrar's rules keep every directory from top down to d.
KeptBelow(top, d) ==
    \A a \in DirTree :
        ((a = top \/ HasPrefix(a, top \o "/")) /\ (a = d \/ HasPrefix(d, a \o "/")))
            => (IsRoot(a) \/ Kept(a))

\* The directories the registrar enrols for a directory that was created.
Enrolled(top) ==
    {d \in DirTree : (d = top \/ HasPrefix(d, top \o "/")) /\ KeptBelow(top, d)}

\* Run with one command, seen between the start of the child and the receipt
\* of the timer's value: the child runs on, the context is not cancelled, and
\* the only steps are the events and the clock.
EventInit ==
    /\ Init
    /\ wgoCmd.ArgsLen = 1 /\ ~wgoCmd.Exit /\ ~wgoCmd.EnableStdin

EventNext ==
    \/ EnterPostpone
    \/ \E ok \in BOOLEAN : Start(ok)
    \/ \E event \in Events : PostponeEvent(event)
    \/ \E event \in Events : SelectEvent(event)
    \/ Tick
    \/ TimerFire

EventSpec == EventInit /\ [][EventNext]_vars

\* C35: the event of a directory leaves the timer as it is; when its op
\* includes create and the instance does not poll, the directory and the
\* directories below it are added to the watcher under the registrar's
\* rules, and otherwise the watcher is left as it is.
DirEventsOnlyEnrol ==
    [][\A e \in Events :
          (e.stat = "dir" /\ (SelectEvent(e) \/ PostponeEvent(e))) =>
              /\ timer' = timer
              /\ armedBy' = armedBy
              /\ watched' = IF Has(e, "CREATE") /\ wgoCmd.PollDuration = 0
                            THEN watched \cup Enrolled(e.Name)
                            ELSE watched]_vars

\* C35 witness: the create event of a directory was handled while the child
\* runs: the directory and the one below it are watched, and the timer was
\* never reset.
DirEventsOnlyEnrolWitness ==
    /\ wgoCmd.PollDuration = 0
    /\ pc = "select" /\ procs[Cur].st = "running"
    /\ {"/r/internal", "/r/internal/baz"} \subseteq watched
    /\ "/r/.git" \notin watched
    /\ ~timer.armed /\ ~timer.C /\ armedBy = "none"

\* C36: a create or write event whose path cannot be stat'ed, or is a file
\* that match rejects, changes nothing: not the timer, not the children, not
\* the position of Run.
RejectedEventsChangeNothing ==
    [][\A e \in Events :
          (/\ SelectEvent(e) \/ PostponeEvent(e)
           /\ \/ e.stat = "err"
              \/ e.stat = "file" /\ ~match(wgoCmd, e.Name))
          => UNCHANGED vars]_vars

\* C36 witness: with -file .go a restart is pending for a matching file and
\* a tick of the debounce has passed, the child running: the state in which
\* an event for main.xhtml is received and rejected.
RejectedEventsChangeNothingWitness ==
    /\ wgoCmd.FileRegexps = <<".go">>
    /\ ~match(wgoCmd, "/r/main.xhtml") /\ match(wgoCmd, "/r/main.go")
    /\ pc = "select" /\ procs[Cur].st = "running"
    /\ timer.armed /\ timer.left < Debounce
    /\ ENABLED SelectEvent([Op |-> {"WRITE"}, Name |-> "/r/main.xhtml", stat |-> "file"])

\* C37: a new pass begins only from the wait that follows the receipt of the
\* timer's value, or from the postponed select by that receipt, at the first
\* command and with the timer idle; that wait is entered only by receiving
\* the timer's value; no other step, the exit of a child among them, changes
\* the pass.
PassBeginsByTimerOnly ==
    [][/\ restartCount' # restartCount =>
              /\ restartCount' = restartCount + 1 /\ i' = 1 /\ pc' = "chain"
              /\ \/ pc = "stopping"
                 \/ pc = "postpone" /\ timer.C /\ ~timer'.C
              /\ ~timer'.armed /\ ~timer'.C
       /\ (pc # "stopping" /\ pc' = "stopping") =>
              pc = "select" /\ timer.C /\ ~timer'.C]_vars

\* C39: once the context is cancelled no child is started.
NoStartAfterCancel == [][ctxDone => DOMAIN procs' \subseteq DOMAIN procs]_vars

\* The instances the progress of Run is followed on: no filter, no polling.
FairRunInit ==
    /\ Init
    /\ wgoCmd.FileRegexps = <<>> /\ ~wgoCmd.isRun /\ wgoCmd.PollDuration = 0

\* The goroutines of Run take their steps and a child that was signalled
\* exits: the scheduler is fair to the reaper goroutines and to Run's receipts
\* of waitDone and cmdResult.  Nothing is assumed of wgoCmd.Stdin: the pump's
\* read may never return.
FairRunSpec ==
    /\ FairRunInit /\ [][Next]_vars
    /\ WF_vars(\E c \in ProcIds, status \in {0, 1} :
                   /\ c \in DOMAIN procs /\ procs[c].killed
                   /\ ChildExit(c, status))
    /\ WF_vars(\E c \in ProcIds : Reap(c))
    /\ WF_vars(Restart)
    /\ WF_vars(ReturnCancelled)
    /\ WF_vars(SelectCmdResult)

\* Run waits for waitDone, after the timer's value or the cancellation.
AwaitsWaitDone == pc \in {"stopping", "cancelling"}

\* The child of the current iteration has exited and cmd.Wait has not
\* returned for it.
CurUnreaped == Cur \in DOMAIN procs /\ procs[Cur].st = "zombie"

\* C38: whatever wgoCmd.Stdin does, a Run that waits for waitDone goes on (to
\* the next pass or to its return), and a child that has exited is reaped, its
\* result delivered to the event loop.
ReapedWithoutStdin ==
    /\ AwaitsWaitDone ~> ~AwaitsWaitDone
    /\ CurUnreaped ~> ~CurUnreaped

\* Whether Run has received a create event for the file f: match has logged
\* it.
CreateReceived(f) ==
    \E line \in logLines :
        line[1] \in {"CREATE", "(skip) CREATE"} /\ line[2] = Normalized(wgoCmd, f)

\* C40: when the instance polls, every file that is created under the root
\* after Run has started leads to a create event that Run receives.
NewFilesCreateEvents ==
    \A f \in WatchFiles : (f \in fsFiles) ~> CreateReceived(f)

\* The characters a backslash is put before, on POSIX.
SpecialSet ==
    {"\\", "'", "\"", backquote, "$", "{", "[", "|", "&", ";", "<", ">", "(", ")", "*",
     "?", "!"}

\* A token with a backslash before every character of the special set and
\* before a leading tilde.
BackslashEscaped(w) ==
    LET f[n \in 0..Len(w)] ==
            IF n = 0 THEN ""
            ELSE LET c == SubSeq(w, n, n)
                 IN  f[n - 1] \o (IF c \in SpecialSet \/ (n = 1 /\ c = "~")
                                  THEN "\\" \o c ELSE c)
    IN  f[Len(w)]

\* A token in single quotes, each of its single quotes outside of them as \':
\* the quotes open before a character that begins the token or follows a
\* single quote, and close after one that ends the token or precedes a single
\* quote.
QuotedRuns(w) ==
    LET f[n \in 0..Len(w)] ==
            IF n = 0 THEN ""
            ELSE LET c == SubSeq(w, n, n)
                 IN  f[n - 1] \o
                     (IF c = "'" THEN "\\'"
                      ELSE (IF n = 1 \/ SubSeq(w, n - 1, n - 1) = "'" THEN "'" ELSE "")
                           \o c \o
                           (IF n = Len(w) \/ SubSeq(w, n + 1, n + 1) = "'" THEN "'" ELSE ""))
    IN  f[Len(w)]

\* What a token becomes on POSIX.
PosixToken(w) ==
    IF w = "" THEN "''"
    ELSE IF \E k \in 1..Len(w) : SubSeq(w, k, k) \in {" ", "\t", "\n"} THEN QuotedRuns(w)
    ELSE BackslashEscaped(w)

\* The tokens of args, each as what makes of it, joined by single spaces.
JoinedBySpaces(args, what(_)) ==
    LET f[n \in 0..Len(args)] ==
            IF n = 0 THEN ""
            ELSE IF n = 1 THEN what(args[1])
            ELSE f[n - 1] \o " " \o what(args[n])
    IN  f[Len(args)]

\* C31: on POSIX joinArgs returns the tokens joined by single spaces, an
\* empty token as '', a token with a space, a tab or a newline in single
\* quotes with each of its single quotes outside of them as \', and any other
\* token with a backslash before every character of the special set and
\* before a leading tilde.
JoinArgsPosix ==
    (joined.state = "returned" /\ joined.goos = "unix") =>
        joined.out = JoinedBySpaces(cmdArgs, PosixToken)

\* C31 witness: joinArgs has returned for the args of the test `tilde bang`.
JoinArgsPosixWitness ==
    /\ joined.state = "returned" /\ joined.goos = "unix"
    /\ cmdArgs = <<"echo", "~user", "u~ser", " ~user", "!~user">>
    /\ joined.out = "echo \\~user u~ser ' ~user' \\!~user"

\* The characters that make PowerShell quote a token.
WindowsSet == {" ", "'", backquote, "$", "(", ")", "{", "}", "<", ">", "|", "&", ";", "*"}

\* A token with each of its single quotes doubled.
Doubled(w) ==
    LET f[n \in 0..Len(w)] ==
            IF n = 0 THEN ""
            ELSE f[n - 1] \o (IF SubSeq(w, n, n) = "'" THEN "''" ELSE SubSeq(w, n, n))
    IN  f[Len(w)]

\* What a token that is not empty becomes on Windows.
WindowsToken(w) ==
    IF \E k \in 1..Len(w) : SubSeq(w, k, k) \in WindowsSet
    THEN "'" \o Doubled(w) \o "'"
    ELSE w

\* C32: on Windows joinArgs returns, for args without an empty token, the
\* tokens joined by single spaces, every token with a character of the set,
\* the first one included, in single quotes with its single quotes doubled,
\* and every other token as it is.
JoinArgsWindowsEveryToken ==
    (/\ joined.state = "returned" /\ joined.goos = "windows"
     /\ \A n \in 1..Len(cmdArgs) : cmdArgs[n] # "") =>
        joined.out = JoinedBySpaces(cmdArgs, WindowsToken)

====
